---- MODULE Spec2Model ----
(***************************************************************************)
(* Model of the cuberef server's item/inventory core:                      *)
(*   - the merge/split algebra of item stacks (game_state/items.rs),       *)
(*   - the InventoryManager, its global database lock and its change       *)
(*     notifications (game_state/inventory.rs),                            *)
(*   - Transient inventory views (game_state/inventory.rs).                *)
(* An Option<T> is modelled as a sequence of length at most one:           *)
(* None is << >> and Some(x) is << x >>.                                   *)
(***************************************************************************)
EXTENDS Integers, Sequences, FiniteSets, TLC

\* ------------------------------------------------------------------------
\* Bounds of the model
\* ------------------------------------------------------------------------
\* largest quantity of a stack handed to the algebra as an input
MaxQty == 3
\* largest explicit count passed to take_items / try_take_all
MaxCount == 3
\* number of inventory keys that can ever be drawn
NumKeys == 2
\* number of InventoryManager calls issued over one behaviour
MaxCalls == 2
\* number of threads calling into the InventoryManager
NumThreads == 2
\* longest raw id handed to KeySpace::make_key, in bytes
MaxRaw == 2
\* number of slots of the inventory handed to Inventory::try_insert
InsertLen == 3
\* number of try_insert calls on one inventory
MaxInserts == 2
\* number of views created over one behaviour
MaxViews == 4
\* largest smelt_progress at which the furnace timer still fires
MaxProgress == 3

\* max_stack values of the item definitions in play: 0 (not stackable) and
\* a small stack limit standing for furnace.rs's 256
StackLimits == {0, 2}
ItemNames == {"a", "b"}

None == << >>
Some(x) == << x >>
IsSome(o) == Len(o) = 1
IsNone(o) == Len(o) = 0
Unwrap(o) == o[1]

Min(a, b) == IF a < b THEN a ELSE b
\* u32::saturating_sub
SaturatingSub(a, b) == IF a > b THEN a - b ELSE 0

\* quantity held by an optional stack, an empty one counting as 0
Qty(o) == IF IsSome(o) THEN Unwrap(o).quantity ELSE 0

\* ------------------------------------------------------------------------
\* State
\* ------------------------------------------------------------------------
VARIABLES
    \* --- item algebra: one optional slot and the last operation on it
    slot,       \* Option<ItemStack>: the slot (self) after the last operation
    pre,        \* the slot before the last operation
    other,      \* Option<ItemStack> argument of the last merge
    count,      \* Option<u32> argument of the last take
    ret,        \* Option<ItemStack> returned by the last operation
    merged,     \* bool returned by the last try_merge_all
    panicked,   \* the last operation panicked (unwrap on None)
    op,         \* name of the last operation
    \* --- InventoryManager
    db,         \* the database: key -> Option<stored inventory proto>
    lock,       \* holder of InventoryManager::db's mutex, NoThread if free
    notified,   \* keys sent on update_sender, oldest first
    allocated,  \* keys drawn by Inventory::new so far
    pc,         \* per thread: where it is in its current call
    call,       \* per thread: the call it is executing
    invs,       \* per thread: the Inventory values it holds in memory
    idx,        \* per thread: position in the load / store loop
    mres,       \* per thread: what the mutator returned
    result,     \* per thread: what the call returns
    reentered,  \* per thread: its mutator called back into the manager
    ncalls,     \* calls issued so far
    \* --- history of the current call, kept for the properties
    snapDb,     \* per thread: db when the thread took the lock
    snapNote,   \* per thread: Len(notified) when the thread took the lock
    loaded,     \* per thread: the stored values it read, in load order
    ran,        \* per thread: the mutator was invoked
    incrs,      \* per key: "incr" mutators run by mutate_one on it
    pureIncr,   \* only make_inventory, get and mutate_one("incr") were called
    \* --- InventoryManager::update_sender, a tokio broadcast channel
    receivers,  \* the live Receiver handles returned by subscribe()
    chan,       \* every value the channel accepted, oldest first
    cursor,     \* per receiver: how many values of chan are behind it
    since,       \* per receiver: Len(chan) when it subscribed
    seen,       \* per receiver: the values recv() has returned to it
    lagged,     \* per receiver: values recv() has reported as missed
    \* --- one InventoryView and the last operation on it
    view,       \* the InventoryView: dimensions, backing, contents
    vlive,      \* the view has not been dropped
    vcleared,   \* clear() has been called on the view
    vpre,       \* the view's contents before the last operation
    vdb,        \* the database before the last operation
    vcall,      \* the last operation and its arguments
    vret,       \* what the last operation returned
    \* --- PlayerManager
    active,     \* active_players: per name, the Player in memory if present
    pstore,     \* the Player key space of the database: per name, the record
    ctx,        \* per client: the name of the PlayerContext it holds
    cpc,        \* per client: where it is in connect
    carg,       \* per client: the name its connect in progress was called with
    cres,       \* per client: what its last connect returned
    alock,      \* holder of the active_players mutex while a flush runs
    cancelled,  \* PlayerManager::shutdown has been cancelled
    lpc,        \* position of the writeback_loop task
    fleft,      \* names the running flush has not reached yet
    writeback,  \* PlayerManager::writeback holds the JoinHandle
    spc,        \* position of the caller of request_shutdown / await_shutdown
    \* --- history of the player store, kept for the properties
    vacant,     \* drop_disconnect has found no entry for its name
    lastw,      \* per name: who wrote the stored record last
    owed,       \* per name: it was in active_players when request_shutdown
                \* was called and has not been written since
    \* --- KeySpace::make_key
    made,       \* the last two calls of make_key: namespace, raw id, key
    \* --- Inventory::from_proto / to_proto
    rt,         \* the last round trip: its input, the conversion, the result
    \* --- Inventory::try_insert
    ins,        \* the last try_insert: inventory before and after, the
                \* stack, the leftover
    \* --- INVENTORY_VIEW_COUNTER and the threads creating views
    counter,    \* the value of INVENTORY_VIEW_COUNTER
    ipc,        \* per thread: where it is in the creation of a view
    got,        \* per thread: the id next_id returned to it
    earlier,    \* per thread: ids of the views complete when it began
    vids,       \* the ids of the complete views, in order of completion
    \* --- one furnace block and its timer callback
    furnace     \* inventories and FurnaceState of the block

itemVars == <<slot, pre, other, count, ret, merged, panicked, op>>
mgrVars == <<db, lock, notified, allocated, pc, call, invs, idx, mres, result,
             reentered, ncalls, snapDb, snapNote, loaded, ran, incrs,
             pureIncr>>
chanVars == <<receivers, chan, cursor, since, seen, lagged>>
viewVars == <<view, vlive, vcleared, vpre, vdb, vcall, vret>>
playerVars == <<active, pstore, ctx, cpc, carg, cres, alock, cancelled, lpc,
                fleft, writeback, spc, vacant, lastw, owed>>
utilVars == <<made, rt, ins, counter, ipc, got, earlier, vids, furnace>>
vars == <<slot, pre, other, count, ret, merged, panicked, op,
          db, lock, notified, allocated, pc, call, invs, idx, mres, result,
          reentered, ncalls, snapDb, snapNote, loaded, ran, incrs, pureIncr,
          receivers, chan, cursor, since, seen, lagged,
          view, vlive, vcleared, vpre, vdb, vcall, vret,
          active, pstore, ctx, cpc, carg, cres, alock, cancelled, lpc,
          fleft, writeback, spc, vacant, lastw, owed,
          made, rt, ins, counter, ipc, got, earlier, vids, furnace>>

\* ------------------------------------------------------------------------
\* game_state/items.rs
\* ------------------------------------------------------------------------
\* The stacks a caller can construct: ItemStack::new takes any quantity and
\* copies max_stack / stackable from the item definition; protos are cloned
\* unchecked by from_proto.
InputStacks ==
    [item_name : ItemNames, quantity : 1..MaxQty,
     max_stack : StackLimits, stackable : BOOLEAN]

Counts == {None} \cup {Some(n) : n \in 0..MaxCount}

\* ItemStack::try_merge with the remainder of a partial merge dropped
ItemStack_try_merge_lossy(self, stack) ==
    IF self.max_stack = 0 \/ stack.max_stack = 0
       \/ self.item_name # stack.item_name
    THEN [self |-> self, ret |-> Some(stack)]
    ELSE [self |-> [self EXCEPT !.quantity = self.quantity +
                       Min(stack.quantity,
                           SaturatingSub(self.max_stack, self.quantity))],
          ret |-> None]

\* ItemStack::try_merge: result is the new self and the returned leftover
ItemStack_try_merge(self, stack) ==
    IF self.max_stack = 0 THEN [self |-> self, ret |-> Some(stack)]
    ELSE IF stack.max_stack = 0 THEN [self |-> self, ret |-> Some(stack)]
    ELSE IF self.item_name # stack.item_name
         THEN [self |-> self, ret |-> Some(stack)]
    ELSE LET move_size == Min(stack.quantity,
                              SaturatingSub(self.max_stack, self.quantity))
             remaining == stack.quantity - move_size
         IN [self |-> [self EXCEPT !.quantity = self.quantity + move_size],
             ret  |-> IF remaining = 0 THEN None
                      ELSE Some([stack EXCEPT !.quantity = remaining])]

\* ItemStack::try_merge_all that keeps what fits before reporting failure
ItemStack_try_merge_all_partial(self, stack) ==
    IF self.max_stack = 0 \/ stack.max_stack = 0
       \/ self.item_name # stack.item_name
    THEN [self |-> self, ok |-> FALSE]
    ELSE LET available_space == SaturatingSub(self.max_stack, self.quantity)
         IN [self |-> [self EXCEPT !.quantity =
                          self.quantity + Min(available_space, stack.quantity)],
             ok |-> available_space >= stack.quantity]

\* ItemStack::try_merge_all: result is the new self and the returned bool
ItemStack_try_merge_all(self, stack) ==
    IF self.max_stack = 0 THEN [self |-> self, ok |-> FALSE]
    ELSE IF stack.max_stack = 0 THEN [self |-> self, ok |-> FALSE]
    ELSE IF self.item_name # stack.item_name THEN [self |-> self, ok |-> FALSE]
    ELSE LET available_space == SaturatingSub(self.max_stack, self.quantity)
         IN IF available_space < stack.quantity
            THEN [self |-> self, ok |-> FALSE]
            ELSE [self |-> [self EXCEPT !.quantity =
                                self.quantity + stack.quantity],
                  ok |-> TRUE]

\* <Option<ItemStack> as MaybeStack>::try_merge
MaybeStack_try_merge(self, o) ==
    IF IsSome(o)
    THEN IF IsSome(self)
         THEN LET r == ItemStack_try_merge(Unwrap(self), Unwrap(o))
              IN [self |-> Some(r.self), ret |-> r.ret]
         ELSE [self |-> o, ret |-> None]
    ELSE [self |-> self, ret |-> None]

\* <Option<ItemStack> as MaybeStack>::try_merge_all
MaybeStack_try_merge_all(self, o) ==
    IF IsSome(o)
    THEN IF IsSome(self)
         THEN LET r == ItemStack_try_merge_all(Unwrap(self), Unwrap(o))
              IN [self |-> Some(r.self), ok |-> r.ok]
         ELSE [self |-> o, ok |-> TRUE]
    ELSE [self |-> self, ok |-> TRUE]

\* take_items that hands out the requested count instead of what was there
MaybeStack_take_items_overdraw(self, c) ==
    IF IsSome(c) /\ IsSome(self)
    THEN IF Unwrap(self).stackable
         THEN LET remaining == SaturatingSub(Unwrap(self).quantity, Unwrap(c))
              IN [self |-> IF remaining = 0 THEN None
                           ELSE Some([Unwrap(self) EXCEPT
                                         !.quantity = remaining]),
                  ret  |-> Some([Unwrap(self) EXCEPT !.quantity = Unwrap(c)])]
         ELSE [self |-> self, ret |-> None]
    ELSE IF IsSome(c) THEN [self |-> self, ret |-> None]
    ELSE [self |-> None, ret |-> self]

\* <Option<ItemStack> as MaybeStack>::take_items
MaybeStack_take_items(self, c) ==
    IF IsSome(c)
    THEN IF IsSome(self)
         THEN IF Unwrap(self).stackable
              THEN LET self_count == Unwrap(self).quantity
                       taken == Min(self_count, Unwrap(c))
                       remaining == SaturatingSub(self_count, Unwrap(c))
                   IN IF remaining = 0
                      THEN [self |-> None, ret |-> self]
                      ELSE [self |-> Some([Unwrap(self) EXCEPT
                                              !.quantity = remaining]),
                            ret  |-> Some([Unwrap(self) EXCEPT
                                              !.quantity = taken])]
              ELSE [self |-> self, ret |-> None]
         ELSE [self |-> self, ret |-> None]
    ELSE [self |-> None, ret |-> self]

\* <Option<ItemStack> as MaybeStack>::try_take_all; panic is the unwrap of
\* an empty slot
MaybeStack_try_take_all(self, c) ==
    IF IsSome(c)
    THEN IF IsNone(self)
         THEN [self |-> self, ret |-> None, panic |-> TRUE]
         ELSE IF Unwrap(self).stackable
              THEN LET available == Unwrap(self).quantity
                   IN IF available = Unwrap(c)
                      THEN [self |-> None, ret |-> self, panic |-> FALSE]
                      ELSE IF available > Unwrap(c)
                      THEN [self |-> Some([Unwrap(self) EXCEPT
                                   !.quantity = available - Unwrap(c)]),
                            ret  |-> Some([Unwrap(self) EXCEPT
                                   !.quantity = Unwrap(c)]),
                            panic |-> FALSE]
                      ELSE [self |-> self, ret |-> None, panic |-> FALSE]
              ELSE [self |-> self, ret |-> None, panic |-> FALSE]
    ELSE [self |-> None, ret |-> self, panic |-> FALSE]

\* ------------------------------------------------------------------------
\* game_state/inventory.rs: Inventory
\* ------------------------------------------------------------------------
Keys == 1..NumKeys
Threads == 1..NumThreads
NoThread == 0

\* Width of the dimension type. The source uses u32; the model narrows it
\* to 16 bits so that an overflowing product stays representable.
DimWidth == 16
DimLimit == 2 ^ DimWidth

\* u32::checked_mul
CheckedMul(a, b) == IF a * b >= DimLimit THEN None ELSE Some(a * b)

\* the proto that to_proto writes for an empty slot
EmptyStackProto ==
    [item_name |-> "", quantity |-> 0, max_stack |-> 0, stackable |-> FALSE]

\* ItemStack::from_proto
ItemStack_from_proto(proto) ==
    IF proto.item_name = "" THEN None ELSE Some(proto)

\* Inventory::new without its two ensure!(dimension > 0) checks
Inventory_new_unchecked(dimensions, key) ==
    LET len == CheckedMul(dimensions[1], dimensions[2])
    IN IF IsNone(len) THEN None
       ELSE Some([key |-> key,
                  dimensions |-> dimensions,
                  contents |-> [i \in 1..Unwrap(len) |-> None]])

\* Inventory::new with the drawn uuid passed in; None is the Err result
Inventory_new(dimensions, key) ==
    IF ~(dimensions[1] > 0) THEN None
    ELSE IF ~(dimensions[2] > 0) THEN None
    ELSE LET len == CheckedMul(dimensions[1], dimensions[2])
         IN IF IsNone(len) THEN None
            ELSE Some([key |-> key,
                       dimensions |-> dimensions,
                       contents |-> [i \in 1..Unwrap(len) |-> None]])

\* Inventory::from_proto; None is the Err result
Inventory_from_proto(proto, key) ==
    LET size == CheckedMul(proto.width, proto.height)
    IN IF IsNone(size) THEN None
       ELSE IF Unwrap(size) # Len(proto.contents) THEN None
       ELSE IF ~(Unwrap(size) > 0) THEN None
       ELSE Some([key |-> key,
                  dimensions |-> <<proto.height, proto.width>>,
                  contents |-> [i \in 1..Len(proto.contents) |->
                                   ItemStack_from_proto(proto.contents[i])]])

\* Inventory::to_proto
Inventory_to_proto(inv) ==
    [height |-> inv.dimensions[1],
     width |-> inv.dimensions[2],
     contents |-> [i \in 1..Len(inv.contents) |->
                      IF IsSome(inv.contents[i]) THEN Unwrap(inv.contents[i])
                      ELSE EmptyStackProto]]

\* ------------------------------------------------------------------------
\* game_state/inventory.rs: InventoryManager
\* ------------------------------------------------------------------------
\* dimensions passed to make_inventory: a zero, two valid shapes and a
\* product that overflows
DimChoices == {<<0, 1>>, <<1, 1>>, <<1, 2>>, <<256, 256>>}

\* Caller-supplied mutators (FnOnce closures). "incr" adds one unit to
\* slot 0 of the first loaded inventory and returns Ok; "incr_then_err"
\* makes the same change and returns Err; "reenter" calls
\* InventoryManager::get from inside the closure; "set_dims" assigns the
\* public field Inventory::dimensions of the first loaded inventory and
\* returns Ok.
Mutators == {"incr", "incr_then_err", "reenter", "set_dims"}

\* the value "set_dims" assigns to Inventory::dimensions
AssignedDims == <<2, 1>>

UnitStack ==
    [item_name |-> "a", quantity |-> 1, max_stack |-> 2, stackable |-> TRUE]

IncrSlot0(inv) ==
    [inv EXCEPT !.contents[1] =
        IF IsSome(@) THEN Some([Unwrap(@) EXCEPT !.quantity = @ + 1])
        ELSE Some(UnitStack)]

ApplyMutator(m, inventories) ==
    IF Len(inventories) = 0 THEN inventories
    ELSE IF m = "set_dims"
    THEN [inventories EXCEPT ![1].dimensions = AssignedDims]
    ELSE [inventories EXCEPT ![1] = IncrSlot0(@)]

MutatorReturn(m) ==
    IF m \in {"incr", "set_dims"} THEN "ok" ELSE "mutator_err"

KeyLists == {<<k>> : k \in Keys} \cup {<<k1, k2>> : k1, k2 \in Keys}

NoCall == [op |-> "none", keys |-> << >>, mutator |-> "none",
           dims |-> <<0, 0>>]
NoResult == [kind |-> "none", val |-> << >>]

\* uuid::Uuid::new_v4: a key that was never drawn before
FreshKey == CHOOSE k \in Keys \ allocated : \A j \in Keys \ allocated : k <= j

\* capacity of update_sender. The source's value is 32; the model keeps
\* the channel at 2 so that a receiver can fall behind within MaxCalls
\* calls.
BROADCAST_CHANNEL_SIZE == 2

\* the handles subscribe() can hand out
Subscribers == {1}

\* InventoryManager::new: broadcast::channel(BROADCAST_CHANNEL_SIZE) with
\* its first Receiver dropped at once
ChanStart ==
    /\ receivers = {}
    /\ chan = << >>
    /\ cursor = [r \in Subscribers |-> 0]
    /\ since = [r \in Subscribers |-> 0]
    /\ seen = [r \in Subscribers |-> << >>]
    /\ lagged = [r \in Subscribers |-> 0]

\* a bounded queue whose send waits until every receiver has room
broadcast_update_waiting(key) ==
    /\ \A r \in receivers : Len(chan) - cursor[r] < BROADCAST_CHANNEL_SIZE
    /\ notified' = Append(notified, key)
    /\ chan' = IF receivers = {} THEN chan ELSE Append(chan, key)
    /\ UNCHANGED <<receivers, cursor, since, seen, lagged>>

\* InventoryManager::broadcast_update: Sender::send never waits; with no
\* live receiver it returns Err and the value is dropped (the warn! arm),
\* otherwise the value is queued and the oldest value is overwritten once
\* BROADCAST_CHANNEL_SIZE values are retained
broadcast_update(key) ==
    /\ notified' = Append(notified, key)
    /\ chan' = IF receivers = {} THEN chan ELSE Append(chan, key)
    /\ UNCHANGED <<receivers, cursor, since, seen, lagged>>

\* position before the oldest value the channel still retains
Oldest == IF Len(chan) > BROADCAST_CHANNEL_SIZE
          THEN Len(chan) - BROADCAST_CHANNEL_SIZE ELSE 0

\* InventoryManager::subscribe: a new Receiver, positioned at the tail
subscribe(r) ==
    /\ r \notin receivers
    /\ receivers' = receivers \cup {r}
    /\ cursor' = [cursor EXCEPT ![r] = Len(chan)]
    /\ since' = [since EXCEPT ![r] = Len(chan)]
    /\ seen' = [seen EXCEPT ![r] = << >>]
    /\ lagged' = [lagged EXCEPT ![r] = 0]
    /\ UNCHANGED chan
    /\ UNCHANGED <<itemVars, mgrVars, viewVars, playerVars,
                   utilVars>>

\* Receiver::recv with a value pending: Err(Lagged(n)) moves the receiver
\* to the oldest retained value, otherwise the next value is returned
recv(r) ==
    /\ r \in receivers
    /\ cursor[r] < Len(chan)
    /\ IF cursor[r] < Oldest
       THEN /\ lagged' = [lagged EXCEPT ![r] = @ + (Oldest - cursor[r])]
            /\ cursor' = [cursor EXCEPT ![r] = Oldest]
            /\ UNCHANGED seen
       ELSE /\ seen' = [seen EXCEPT ![r] = Append(@, chan[cursor[r] + 1])]
            /\ cursor' = [cursor EXCEPT ![r] = @ + 1]
            /\ UNCHANGED lagged
    /\ UNCHANGED <<receivers, chan, since>>
    /\ UNCHANGED <<itemVars, mgrVars, viewVars, playerVars,
                   utilVars>>

\* the Receiver handle is dropped
drop_receiver(r) ==
    /\ r \in receivers
    /\ receivers' = receivers \ {r}
    /\ UNCHANGED <<chan, cursor, since, seen, lagged>>
    /\ UNCHANGED <<itemVars, mgrVars, viewVars, playerVars,
                   utilVars>>

\* a parking_lot mutex that lets its holder lock it again
CanLockReentrant(t) == lock = NoThread \/ lock = t
\* a lock() that never waits
CanLockUnguarded(t) == TRUE

\* parking_lot::Mutex::lock on InventoryManager::db returns only while no
\* thread holds the mutex, the caller included
CanLock(t) == lock = NoThread

\* values every call starts from and Return resets to
ClearCall(t) ==
    /\ call' = [call EXCEPT ![t] = NoCall]
    /\ invs' = [invs EXCEPT ![t] = << >>]
    /\ idx' = [idx EXCEPT ![t] = 1]
    /\ mres' = [mres EXCEPT ![t] = "none"]
    /\ result' = [result EXCEPT ![t] = NoResult]
    /\ snapDb' = [snapDb EXCEPT ![t] = [k \in Keys |-> None]]
    /\ snapNote' = [snapNote EXCEPT ![t] = 0]
    /\ loaded' = [loaded EXCEPT ![t] = << >>]
    /\ ran' = [ran EXCEPT ![t] = FALSE]

\* InventoryManager::new(db), no call in progress. The database is
\* persistent: it may already hold the inventories of keys 1..n, written by
\* make_inventory (height 1, width 1) in an earlier run of the server.
MgrStart(n) ==
    /\ db = [k \in Keys |->
                IF k <= n
                THEN Some(Inventory_to_proto(Unwrap(Inventory_new(<<1, 1>>,
                                                                   k))))
                ELSE None]
    /\ lock = NoThread
    /\ notified = << >>
    /\ allocated = 1..n
    /\ pc = [t \in Threads |-> "idle"]
    /\ call = [t \in Threads |-> NoCall]
    /\ invs = [t \in Threads |-> << >>]
    /\ idx = [t \in Threads |-> 1]
    /\ mres = [t \in Threads |-> "none"]
    /\ result = [t \in Threads |-> NoResult]
    /\ reentered = [t \in Threads |-> FALSE]
    /\ ncalls = 0
    /\ snapDb = [t \in Threads |-> [k \in Keys |-> None]]
    /\ snapNote = [t \in Threads |-> 0]
    /\ loaded = [t \in Threads |-> << >>]
    /\ ran = [t \in Threads |-> FALSE]
    /\ incrs = [k \in Keys |-> 0]
    /\ pureIncr = TRUE

\* make_inventory up to the lock: Inventory::new runs before db.lock()
CallMakeInventory(t) ==
    /\ pc[t] = "idle"
    /\ UNCHANGED itemVars
    /\ UNCHANGED viewVars
    /\ UNCHANGED <<playerVars, utilVars>>
    /\ UNCHANGED chanVars
    /\ ncalls < MaxCalls
    /\ ncalls' = ncalls + 1
    /\ \E d \in DimChoices :
          /\ call' = [call EXCEPT ![t] =
                        [op |-> "make_inventory", keys |-> << >>,
                         mutator |-> "none", dims |-> d]]
          /\ IF IsNone(Inventory_new(d, 0))
             THEN /\ pc' = [pc EXCEPT ![t] = "done"]
                  /\ result' = [result EXCEPT ![t] =
                                  [kind |-> "err_dims", val |-> << >>]]
                  /\ UNCHANGED <<allocated, invs>>
             ELSE /\ allocated # Keys
                  /\ allocated' = allocated \cup {FreshKey}
                  /\ invs' = [invs EXCEPT ![t] =
                                 <<Unwrap(Inventory_new(d, FreshKey))>>]
                  /\ pc' = [pc EXCEPT ![t] = "lock"]
                  /\ UNCHANGED result
    /\ UNCHANGED <<db, lock, notified, idx, mres, reentered, snapDb,
                   snapNote, loaded, ran, incrs, pureIncr>>

\* A thread enters get / mutate_inventory_atomically /
\* mutate_inventories_atomically and reaches self.db.lock(). The function
\* first reads its arguments after lock() has returned, so the model draws
\* them there (GetLoad, MutateOneLoad, MutateManyLoad): a thread waiting for
\* the lock carries only the name of the function it is in.
CallGet(t) ==
    /\ pc[t] = "idle"
    /\ UNCHANGED itemVars
    /\ UNCHANGED viewVars
    /\ UNCHANGED <<playerVars, utilVars>>
    /\ UNCHANGED chanVars
    /\ ncalls < MaxCalls
    /\ ncalls' = ncalls + 1
    /\ call' = [call EXCEPT ![t] = [NoCall EXCEPT !.op = "get"]]
    /\ pc' = [pc EXCEPT ![t] = "lock"]
    /\ UNCHANGED <<db, lock, notified, allocated, invs, idx, mres, result,
                   reentered, snapDb, snapNote, loaded, ran, incrs, pureIncr>>

\* mutate_inventory_atomically up to the lock
CallMutateOne(t) ==
    /\ pc[t] = "idle"
    /\ UNCHANGED itemVars
    /\ UNCHANGED viewVars
    /\ UNCHANGED <<playerVars, utilVars>>
    /\ UNCHANGED chanVars
    /\ ncalls < MaxCalls
    /\ ncalls' = ncalls + 1
    /\ call' = [call EXCEPT ![t] = [NoCall EXCEPT !.op = "mutate_one"]]
    /\ pc' = [pc EXCEPT ![t] = "lock"]
    /\ UNCHANGED <<db, lock, notified, allocated, invs, idx, mres, result,
                   reentered, snapDb, snapNote, loaded, ran, incrs, pureIncr>>

\* mutate_inventories_atomically up to the lock
CallMutateMany(t) ==
    /\ pc[t] = "idle"
    /\ UNCHANGED itemVars
    /\ UNCHANGED viewVars
    /\ UNCHANGED <<playerVars, utilVars>>
    /\ UNCHANGED chanVars
    /\ ncalls < MaxCalls
    /\ ncalls' = ncalls + 1
    /\ call' = [call EXCEPT ![t] = [NoCall EXCEPT !.op = "mutate_many"]]
    /\ pureIncr' = FALSE
    /\ pc' = [pc EXCEPT ![t] = "lock"]
    /\ UNCHANGED <<db, lock, notified, allocated, invs, idx, mres, result,
                   reentered, snapDb, snapNote, loaded, ran, incrs>>

\* self.db.lock()
Acquire(t) ==
    /\ pc[t] = "lock"
    /\ UNCHANGED itemVars
    /\ UNCHANGED viewVars
    /\ UNCHANGED <<playerVars, utilVars>>
    /\ UNCHANGED chanVars
    /\ CanLock(t)
    /\ lock' = t
    /\ pc' = [pc EXCEPT ![t] =
                IF call[t].op = "make_inventory" THEN "put" ELSE "load"]
    /\ idx' = [idx EXCEPT ![t] = 1]
    /\ invs' = [invs EXCEPT ![t] =
                  IF call[t].op = "make_inventory" THEN @ ELSE << >>]
    /\ loaded' = [loaded EXCEPT ![t] = << >>]
    /\ snapDb' = [snapDb EXCEPT ![t] = db]
    /\ snapNote' = [snapNote EXCEPT ![t] = Len(notified)]
    /\ UNCHANGED <<db, notified, allocated, call, mres, result, reentered,
                   ncalls, ran, incrs, pureIncr>>

\* make_inventory: db.put of the new, empty inventory
MakeInventoryPut(t) ==
    /\ pc[t] = "put"
    /\ UNCHANGED itemVars
    /\ UNCHANGED viewVars
    /\ UNCHANGED <<playerVars, utilVars>>
    /\ UNCHANGED chanVars
    /\ LET inventory == invs[t][1]
       IN /\ db' = [db EXCEPT ![inventory.key] =
                       Some(Inventory_to_proto(inventory))]
          /\ result' = [result EXCEPT ![t] =
                          [kind |-> "ok", val |-> <<inventory.key>>]]
    /\ pc' = [pc EXCEPT ![t] = "done"]
    /\ UNCHANGED <<lock, notified, allocated, call, invs, idx, mres,
                   reentered, ncalls, snapDb, snapNote, loaded, ran, incrs,
                   pureIncr>>

\* get that answers a record it cannot decode like an absent key
GetLoadDefaulting(t) ==
    /\ pc[t] = "load"
    /\ UNCHANGED itemVars
    /\ UNCHANGED viewVars
    /\ UNCHANGED <<playerVars, utilVars>>
    /\ UNCHANGED chanVars
    /\ call[t].op = "get"
    /\ \E key \in Keys :
          /\ call' = [call EXCEPT ![t].keys = <<key>>]
          /\ result' = [result EXCEPT ![t] =
                IF IsNone(db[key])
                   \/ IsNone(Inventory_from_proto(Unwrap(db[key]), key))
                THEN [kind |-> "ok", val |-> None]
                ELSE [kind |-> "ok",
                      val |-> Inventory_from_proto(Unwrap(db[key]), key)]]
    /\ pc' = [pc EXCEPT ![t] = "done"]
    /\ UNCHANGED <<db, lock, notified, allocated, invs, idx, mres,
                   reentered, ncalls, snapDb, snapNote, loaded, ran, incrs,
                   pureIncr>>

\* get: db.get, decode, from_proto
GetLoad(t) ==
    /\ pc[t] = "load"
    /\ UNCHANGED itemVars
    /\ UNCHANGED viewVars
    /\ UNCHANGED <<playerVars, utilVars>>
    /\ UNCHANGED chanVars
    /\ call[t].op = "get"
    /\ \E key \in Keys :
          LET bytes == db[key]
          IN /\ call' = [call EXCEPT ![t].keys = <<key>>]
             /\ result' = [result EXCEPT ![t] =
                   IF IsNone(bytes) THEN [kind |-> "ok", val |-> None]
                   ELSE IF IsNone(Inventory_from_proto(Unwrap(bytes), key))
                   THEN [kind |-> "err_corrupt", val |-> << >>]
                   ELSE [kind |-> "ok",
                         val |-> Inventory_from_proto(Unwrap(bytes), key)]]
    /\ pc' = [pc EXCEPT ![t] = "done"]
    /\ UNCHANGED <<db, lock, notified, allocated, invs, idx, mres,
                   reentered, ncalls, snapDb, snapNote, loaded, ran, incrs,
                   pureIncr>>

\* mutate_inventory_atomically: db.get, decode, bail when absent
MutateOneLoad(t) ==
    /\ pc[t] = "load"
    /\ UNCHANGED itemVars
    /\ UNCHANGED viewVars
    /\ UNCHANGED <<playerVars, utilVars>>
    /\ UNCHANGED chanVars
    /\ call[t].op = "mutate_one"
    /\ \E key \in Keys, m \in Mutators :
          LET bytes == db[key]
          IN /\ call' = [call EXCEPT ![t].keys = <<key>>, ![t].mutator = m]
             /\ pureIncr' = (pureIncr /\ m = "incr")
             /\ IF IsNone(bytes)
                THEN /\ result' = [result EXCEPT ![t] =
                                     [kind |-> "not_found", val |-> << >>]]
                     /\ pc' = [pc EXCEPT ![t] = "done"]
                     /\ UNCHANGED <<invs, loaded>>
                ELSE IF IsNone(Inventory_from_proto(Unwrap(bytes), key))
                THEN /\ result' = [result EXCEPT ![t] =
                                     [kind |-> "err_corrupt", val |-> << >>]]
                     /\ pc' = [pc EXCEPT ![t] = "done"]
                     /\ UNCHANGED <<invs, loaded>>
                ELSE /\ invs' = [invs EXCEPT ![t] =
                          <<Unwrap(Inventory_from_proto(Unwrap(bytes), key))>>]
                     /\ loaded' = [loaded EXCEPT ![t] = <<Unwrap(bytes)>>]
                     /\ pc' = [pc EXCEPT ![t] = "run"]
                     /\ UNCHANGED result
    /\ UNCHANGED <<db, lock, notified, allocated, idx, mres, reentered,
                   ncalls, snapDb, snapNote, ran, incrs>>

\* mutate_inventory_atomically: mutator(&mut inv)
MutateOneRun(t) ==
    /\ pc[t] = "run"
    /\ UNCHANGED itemVars
    /\ UNCHANGED viewVars
    /\ UNCHANGED <<playerVars, utilVars>>
    /\ UNCHANGED chanVars
    /\ call[t].op = "mutate_one"
    /\ ran' = [ran EXCEPT ![t] = TRUE]
    /\ IF call[t].mutator = "reenter"
       THEN /\ reentered' = [reentered EXCEPT ![t] = TRUE]
            /\ pc' = [pc EXCEPT ![t] = "lock"]
            /\ UNCHANGED <<invs, mres, incrs>>
       ELSE /\ invs' = [invs EXCEPT ![t] =
                          ApplyMutator(call[t].mutator, @)]
            /\ mres' = [mres EXCEPT ![t] = MutatorReturn(call[t].mutator)]
            /\ incrs' = [incrs EXCEPT ![call[t].keys[1]] =
                           IF call[t].mutator = "incr" THEN @ + 1 ELSE @]
            /\ pc' = [pc EXCEPT ![t] = "store"]
            /\ UNCHANGED reentered
    /\ UNCHANGED <<db, lock, notified, allocated, call, idx, result, ncalls,
                   snapDb, snapNote, loaded, pureIncr>>

\* mutate_inventory_atomically: db.put, broadcast_update, return result
MutateOneStore(t) ==
    /\ pc[t] = "store"
    /\ UNCHANGED itemVars
    /\ UNCHANGED viewVars
    /\ UNCHANGED <<playerVars, utilVars>>
    /\ call[t].op = "mutate_one"
    /\ LET key == call[t].keys[1]
       IN /\ db' = [db EXCEPT ![key] = Some(Inventory_to_proto(invs[t][1]))]
          /\ broadcast_update(key)
    /\ result' = [result EXCEPT ![t] = [kind |-> mres[t], val |-> << >>]]
    /\ pc' = [pc EXCEPT ![t] = "done"]
    /\ UNCHANGED <<lock, allocated, call, invs, idx, mres, reentered, ncalls,
                   snapDb, snapNote, loaded, ran, incrs, pureIncr>>

\* the argument lists the load loop of thread t can be working on: drawn
\* in the first iteration, fixed afterwards
ManyArgs(t) ==
    IF idx[t] = 1
    THEN [keys : KeyLists, mutator : Mutators]
    ELSE {[keys |-> call[t].keys, mutator |-> call[t].mutator]}

\* the load loop of mutate_inventories_atomically with an absent key
\* skipped instead of failing the call
MutateManyLoadSkipAbsent(t) ==
    /\ pc[t] = "load"
    /\ UNCHANGED itemVars
    /\ UNCHANGED viewVars
    /\ UNCHANGED <<playerVars, utilVars>>
    /\ UNCHANGED chanVars
    /\ call[t].op = "mutate_many"
    /\ \E a \in ManyArgs(t) :
          LET key == a.keys[idx[t]]
              bytes == db[key]
          IN /\ call' = [call EXCEPT ![t].keys = a.keys,
                                     ![t].mutator = a.mutator]
             /\ IF IsNone(bytes) THEN UNCHANGED <<invs, loaded>>
                ELSE /\ invs' = [invs EXCEPT ![t] = Append(@,
                          Unwrap(Inventory_from_proto(Unwrap(bytes), key)))]
                     /\ loaded' = [loaded EXCEPT ![t] =
                                      Append(@, Unwrap(bytes))]
             /\ idx' = [idx EXCEPT ![t] = @ + 1]
             /\ pc' = [pc EXCEPT ![t] =
                         IF idx[t] = Len(a.keys) THEN "run" ELSE "load"]
    /\ UNCHANGED <<db, lock, notified, allocated, mres, result,
                   reentered, ncalls, snapDb, snapNote, ran, incrs, pureIncr>>

\* mutate_inventories_atomically: one iteration of the load loop
MutateManyLoad(t) ==
    /\ pc[t] = "load"
    /\ UNCHANGED itemVars
    /\ UNCHANGED viewVars
    /\ UNCHANGED <<playerVars, utilVars>>
    /\ UNCHANGED chanVars
    /\ call[t].op = "mutate_many"
    /\ \E a \in ManyArgs(t) :
          LET key == a.keys[idx[t]]
              bytes == db[key]
          IN /\ call' = [call EXCEPT ![t].keys = a.keys,
                                     ![t].mutator = a.mutator]
             /\ IF IsNone(bytes)
                THEN /\ result' = [result EXCEPT ![t] =
                                     [kind |-> "not_found", val |-> << >>]]
                     /\ pc' = [pc EXCEPT ![t] = "done"]
                     /\ invs' = [invs EXCEPT ![t] = << >>]
                     /\ UNCHANGED <<idx, loaded>>
                ELSE IF IsNone(Inventory_from_proto(Unwrap(bytes), key))
                THEN /\ result' = [result EXCEPT ![t] =
                                     [kind |-> "err_corrupt", val |-> << >>]]
                     /\ pc' = [pc EXCEPT ![t] = "done"]
                     /\ invs' = [invs EXCEPT ![t] = << >>]
                     /\ UNCHANGED <<idx, loaded>>
                ELSE /\ invs' = [invs EXCEPT ![t] = Append(@,
                          Unwrap(Inventory_from_proto(Unwrap(bytes), key)))]
                     /\ loaded' = [loaded EXCEPT ![t] =
                                      Append(@, Unwrap(bytes))]
                     /\ idx' = [idx EXCEPT ![t] = @ + 1]
                     /\ pc' = [pc EXCEPT ![t] =
                                 IF idx[t] = Len(a.keys) THEN "run"
                                 ELSE "load"]
                     /\ UNCHANGED result
    /\ UNCHANGED <<db, lock, notified, allocated, mres, reentered,
                   ncalls, snapDb, snapNote, ran, incrs, pureIncr>>

\* mutate_inventories_atomically: mutator(&mut inventories)
MutateManyRun(t) ==
    /\ pc[t] = "run"
    /\ UNCHANGED itemVars
    /\ UNCHANGED viewVars
    /\ UNCHANGED <<playerVars, utilVars>>
    /\ UNCHANGED chanVars
    /\ call[t].op = "mutate_many"
    /\ ran' = [ran EXCEPT ![t] = TRUE]
    /\ idx' = [idx EXCEPT ![t] = 1]
    /\ IF call[t].mutator = "reenter"
       THEN /\ reentered' = [reentered EXCEPT ![t] = TRUE]
            /\ pc' = [pc EXCEPT ![t] = "lock"]
            /\ UNCHANGED <<invs, mres, result>>
       ELSE /\ invs' = [invs EXCEPT ![t] =
                          ApplyMutator(call[t].mutator, @)]
            /\ mres' = [mres EXCEPT ![t] = MutatorReturn(call[t].mutator)]
            /\ IF Len(invs[t]) = 0
               THEN /\ pc' = [pc EXCEPT ![t] = "done"]
                    /\ result' = [result EXCEPT ![t] =
                          [kind |-> MutatorReturn(call[t].mutator),
                           val |-> << >>]]
               ELSE /\ pc' = [pc EXCEPT ![t] = "store"]
                    /\ UNCHANGED result
            /\ UNCHANGED reentered
    /\ UNCHANGED <<db, lock, notified, allocated, call, ncalls, snapDb,
                   snapNote, loaded, incrs, pureIncr>>

\* mutate_inventories_atomically: one iteration of the store loop (db.put,
\* broadcast_update); the mutator's result is returned after the last one
MutateManyStore(t) ==
    /\ pc[t] = "store"
    /\ UNCHANGED itemVars
    /\ UNCHANGED viewVars
    /\ UNCHANGED <<playerVars, utilVars>>
    /\ call[t].op = "mutate_many"
    /\ LET inv == invs[t][idx[t]]
       IN /\ db' = [db EXCEPT ![inv.key] = Some(Inventory_to_proto(inv))]
          /\ broadcast_update(inv.key)
    /\ IF idx[t] = Len(invs[t])
       THEN /\ result' = [result EXCEPT ![t] =
                            [kind |-> mres[t], val |-> << >>]]
            /\ pc' = [pc EXCEPT ![t] = "done"]
            /\ UNCHANGED idx
       ELSE /\ idx' = [idx EXCEPT ![t] = @ + 1]
            /\ UNCHANGED <<result, pc>>
    /\ UNCHANGED <<lock, allocated, call, invs, mres, reentered, ncalls,
                   snapDb, snapNote, loaded, ran, incrs, pureIncr>>

\* the call returns: the MutexGuard is dropped
Return(t) ==
    /\ pc[t] = "done"
    /\ UNCHANGED itemVars
    /\ UNCHANGED viewVars
    /\ UNCHANGED <<playerVars, utilVars>>
    /\ UNCHANGED chanVars
    /\ pc' = [pc EXCEPT ![t] = "idle"]
    /\ lock' = IF lock = t THEN NoThread ELSE lock
    /\ ClearCall(t)
    /\ UNCHANGED <<db, notified, allocated, reentered, ncalls, incrs,
                   pureIncr>>

\* ------------------------------------------------------------------------
\* game_state/inventory.rs: InventoryView
\* ------------------------------------------------------------------------
\* The stacks a view is handed, built by ItemStack::new from the item
\* definitions: item "a" is stackable with a limit, item "b" is not
\* stackable (max_stack 0) and comes as single units.
ViewStacks ==
    {st \in InputStacks :
        \/ st.item_name = "a" /\ st.stackable /\ st.max_stack > 0
        \/ st.item_name = "b" /\ ~st.stackable /\ st.max_stack = 0
              /\ st.quantity = 1}

\* BorrowedStack::borrows_from: no origin, or slot 0 of container 1
Origins == {None, Some(<<1, 0>>)}

\* BorrowedStack
BorrowedStacks == [borrows_from : Origins, borrowed_stack : ViewStacks]

\* (rows, cols) of the views
ViewDims == {<<1, 1>>, <<1, 2>>}

\* slot arguments of take / put: inside and outside of the views
SlotArgs == {0, 1, 2}

\* the initial_contents vectors handed to new_transient
InitialContents ==
    UNION {[1..n -> {None} \cup {Some(b) : b \in BorrowedStacks}] :
              n \in 0..2}

\* InventoryView::new_transient; None is the Err result
new_transient(dimensions, initial_contents) ==
    LET contents ==
            IF Len(initial_contents) = 0
            THEN [i \in 1..(dimensions[1] * dimensions[2]) |-> None]
            ELSE initial_contents
    IN IF dimensions[1] * dimensions[2] # Len(contents) THEN None
       ELSE Some([dimensions |-> dimensions,
                  backing |-> "Transient",
                  contents |-> contents])

\* number of slots the bound check of take / put allows
ViewSlots(v) == v.dimensions[1] * v.dimensions[2]

\* peek, Transient arm
Transient_peek(contents) ==
    [i \in 1..Len(contents) |->
        IF IsSome(contents[i]) THEN Some(Unwrap(contents[i]).borrowed_stack)
        ELSE None]

\* take on a Transient view that hands the stack out without its origin
Transient_take_unmarked(contents, at, c) ==
    LET slot_contents == contents[at + 1]
    IN IF IsSome(slot_contents)
       THEN LET r == MaybeStack_take_items(
                         Some(Unwrap(slot_contents).borrowed_stack), c)
            IN [contents |->
                   [contents EXCEPT ![at + 1] =
                       IF IsSome(r.self)
                       THEN Some([Unwrap(slot_contents) EXCEPT
                                     !.borrowed_stack = Unwrap(r.self)])
                       ELSE None],
                ret |-> IF IsSome(r.ret)
                        THEN Some([borrows_from |-> None,
                                   borrowed_stack |-> Unwrap(r.ret)])
                        ELSE None]
       ELSE [contents |-> contents, ret |-> None]

\* take, Transient arm: the new contents and the returned BorrowedStack
Transient_take(contents, at, c) ==
    LET slot_contents == contents[at + 1]
    IN IF IsSome(slot_contents)
       THEN LET borrows_from == Unwrap(slot_contents).borrows_from
                r == MaybeStack_take_items(
                         Some(Unwrap(slot_contents).borrowed_stack), c)
            IN [contents |->
                   [contents EXCEPT ![at + 1] =
                       IF IsSome(r.self)
                       THEN Some([Unwrap(slot_contents) EXCEPT
                                     !.borrowed_stack = Unwrap(r.self)])
                       ELSE None],
                ret |-> IF IsSome(r.ret)
                        THEN Some([borrows_from |-> borrows_from,
                                   borrowed_stack |-> Unwrap(r.ret)])
                        ELSE None]
       ELSE [contents |-> contents, ret |-> None]

\* put, Transient arm: an empty slot takes the stack; for an occupied slot
\* the merge runs on a clone of the slot's stack (`inner`), which is then
\* dropped, and only the leftover is returned
Transient_put(contents, at, stack) ==
    LET slot_contents == contents[at + 1]
    IN IF IsNone(slot_contents)
       THEN [contents |-> [contents EXCEPT ![at + 1] = Some(stack)],
             ret |-> None]
       ELSE LET inner == Unwrap(slot_contents).borrowed_stack
                leftover ==
                    ItemStack_try_merge(inner, stack.borrowed_stack).ret
            IN [contents |-> contents,
                ret |-> IF IsSome(leftover)
                        THEN Some([borrows_from |-> stack.borrows_from,
                                   borrowed_stack |-> Unwrap(leftover)])
                        ELSE None]

\* the thread that calls into the view; it is none of Threads
ViewCaller == NumThreads + 1

\* new_stored that takes one column more than the stored inventory has
new_stored_wider(bytes, inventory_key) ==
    IF IsNone(bytes) THEN None
    ELSE LET inventory == Inventory_from_proto(Unwrap(bytes), inventory_key)
         IN IF IsNone(inventory) THEN None
            ELSE Some([dimensions |->
                          <<Unwrap(inventory).dimensions[1],
                            Unwrap(inventory).dimensions[2] + 1>>,
                       backing |-> "Stored",
                       contents |-> << >>,
                       key |-> inventory_key])

\* InventoryView::new_stored: get(key), the dimensions are copied from the
\* stored inventory; None is the Err result (unknown key, undecodable
\* record)
new_stored(bytes, inventory_key) ==
    IF IsNone(bytes) THEN None
    ELSE LET inventory == Inventory_from_proto(Unwrap(bytes), inventory_key)
         IN IF IsNone(inventory) THEN None
            ELSE Some([dimensions |-> Unwrap(inventory).dimensions,
                       backing |-> "Stored",
                       contents |-> << >>,
                       key |-> inventory_key])

\* peek on a Stored view answered with the slots of a freshly made
\* inventory of the view's dimensions instead of the stored ones
Stored_peek_stale(bytes, key) ==
    IF IsNone(bytes) THEN [kind |-> "not_found", val |-> None]
    ELSE LET inv == Inventory_from_proto(Unwrap(bytes), key)
         IN IF IsNone(inv) THEN [kind |-> "err_corrupt", val |-> None]
            ELSE [kind |-> "ok",
                  val |-> [i \in 1..Len(Unwrap(inv).contents) |-> None]]

\* peek, Stored arm: get(key)?.with_context(..)?.contents().to_vec()
Stored_peek(bytes, key) ==
    IF IsNone(bytes) THEN [kind |-> "not_found", val |-> None]
    ELSE LET inv == Inventory_from_proto(Unwrap(bytes), key)
         IN IF IsNone(inv) THEN [kind |-> "err_corrupt", val |-> None]
            ELSE [kind |-> "ok", val |-> Unwrap(inv).contents]

\* take on a Stored view whose closure reads the slot without changing it
Stored_take_copy(bytes, key, at, c) ==
    IF IsNone(bytes)
    THEN [kind |-> "not_found", put |-> None, ret |-> None]
    ELSE LET inv == Inventory_from_proto(Unwrap(bytes), key)
         IN IF IsNone(inv)
            THEN [kind |-> "err_corrupt", put |-> None, ret |-> None]
            ELSE IF ~(at < Len(Unwrap(inv).contents))
            THEN [kind |-> "panic", put |-> None, ret |-> None]
            ELSE LET r == MaybeStack_take_items(
                              Unwrap(inv).contents[at + 1], c)
                 IN [kind |-> "ok",
                     put |-> Some(Inventory_to_proto(Unwrap(inv))),
                     ret |-> IF IsSome(r.ret)
                             THEN Some([borrows_from |-> Some(<<key, at>>),
                                        borrowed_stack |-> Unwrap(r.ret)])
                             ELSE None]

\* take, Stored arm: mutate_inventory_atomically(key, |inv|
\* inv.contents_mut().get_mut(slot).unwrap().take_items(count)), the
\* obtained stack wrapped with borrows_from = Some((key, slot)). put is the
\* record db.put writes (None when the call fails before db.put); "panic"
\* is the unwrap of a slot the loaded inventory does not have.
Stored_take(bytes, key, at, c) ==
    IF IsNone(bytes)
    THEN [kind |-> "not_found", put |-> None, ret |-> None]
    ELSE LET inv == Inventory_from_proto(Unwrap(bytes), key)
         IN IF IsNone(inv)
            THEN [kind |-> "err_corrupt", put |-> None, ret |-> None]
            ELSE IF ~(at < Len(Unwrap(inv).contents))
            THEN [kind |-> "panic", put |-> None, ret |-> None]
            ELSE LET r == MaybeStack_take_items(
                              Unwrap(inv).contents[at + 1], c)
                     after == [Unwrap(inv) EXCEPT !.contents[at + 1] = r.self]
                 IN [kind |-> "ok",
                     put |-> Some(Inventory_to_proto(after)),
                     ret |-> IF IsSome(r.ret)
                             THEN Some([borrows_from |-> Some(<<key, at>>),
                                        borrowed_stack |-> Unwrap(r.ret)])
                             ELSE None]

\* put, Stored arm: mutate_inventory_atomically(key, |inv|
\* inv.contents_mut().get_mut(slot).unwrap()
\*    .try_merge(Some(stack.borrowed_stack))), the leftover wrapped with the
\* origin of the stack that was put
Stored_put(bytes, key, at, stack) ==
    IF IsNone(bytes)
    THEN [kind |-> "not_found", put |-> None, ret |-> None]
    ELSE LET inv == Inventory_from_proto(Unwrap(bytes), key)
         IN IF IsNone(inv)
            THEN [kind |-> "err_corrupt", put |-> None, ret |-> None]
            ELSE IF ~(at < Len(Unwrap(inv).contents))
            THEN [kind |-> "panic", put |-> None, ret |-> None]
            ELSE LET r == MaybeStack_try_merge(
                              Unwrap(inv).contents[at + 1],
                              Some(stack.borrowed_stack))
                     after == [Unwrap(inv) EXCEPT !.contents[at + 1] = r.self]
                 IN [kind |-> "ok",
                     put |-> Some(Inventory_to_proto(after)),
                     ret |-> IF IsSome(r.ret)
                             THEN Some([borrows_from |-> stack.borrows_from,
                                        borrowed_stack |-> Unwrap(r.ret)])
                             ELSE None]

NoViewCall == [op |-> "new", at |-> 0, count |-> None, stack |-> None]
NoViewResult == [kind |-> "none", val |-> None]

\* a Transient view right after new_transient(dimensions, initial_contents)
ViewStart(dimensions, initial_contents) ==
    /\ IsSome(new_transient(dimensions, initial_contents))
    /\ view = Unwrap(new_transient(dimensions, initial_contents))
    /\ vlive = TRUE
    /\ vcleared = FALSE
    /\ vpre = view.contents
    /\ vdb = db
    /\ vcall = NoViewCall
    /\ vret = NoViewResult

\* a Stored view right after new_stored(inventory_key, ..)
StoredStart(inventory_key) ==
    /\ IsSome(new_stored(db[inventory_key], inventory_key))
    /\ view = Unwrap(new_stored(db[inventory_key], inventory_key))
    /\ vlive = TRUE
    /\ vcleared = FALSE
    /\ vpre = view.contents
    /\ vdb = db
    /\ vcall = NoViewCall
    /\ vret = NoViewResult

\* the BorrowedStacks a caller can put: made from a stack it holds, or the
\* one the last take / put handed to it
\* the stacks a caller makes to put into a Stored view: one unit of the
\* stackable item, one of the other, with no origin
StoredPutStacks ==
    {b \in BorrowedStacks :
        /\ b.borrows_from = None
        /\ b.borrowed_stack.quantity = 1
        /\ b.borrowed_stack.max_stack \in {0, 2}}

PutStacks ==
    (IF view.backing = "Transient" THEN BorrowedStacks ELSE StoredPutStacks)
    \cup
    (IF vcall.op \in {"take", "put"} /\ vret.kind = "ok" /\ IsSome(vret.val)
     THEN {Unwrap(vret.val)} ELSE {})

\* the part of the manager's state a call made through a view leaves alone:
\* the call runs on ViewCaller, under the lock, from lock() to return
mgrThreadVars == <<lock, allocated, pc, call, invs, idx, mres, result,
                   reentered, snapDb, snapNote, loaded, ran, incrs,
                   pureIncr>>

\* what a mutate_inventory_atomically issued by a Stored view does to the
\* store and the channel: r.put is written and the key is sent, or the call
\* failed before db.put. The call counts toward MaxCalls like a direct one.
StoredCommit(r) ==
    /\ ncalls < MaxCalls
    /\ ncalls' = ncalls + 1
    /\ IF IsSome(r.put)
       THEN /\ db' = [db EXCEPT ![view.key] = r.put]
            /\ broadcast_update(view.key)
       ELSE UNCHANGED <<db, notified, chanVars>>

\* InventoryView::peek
ViewPeek ==
    /\ vlive
    /\ vcall' = [NoViewCall EXCEPT !.op = "peek"]
    /\ IF view.backing = "Transient"
       THEN vret' = [kind |-> "ok", val |-> Transient_peek(view.contents)]
       ELSE /\ CanLock(ViewCaller)
            /\ vret' = Stored_peek(db[view.key], view.key)
    /\ vpre' = view.contents
    /\ vdb' = db
    /\ UNCHANGED <<view, vlive, vcleared>>
    /\ UNCHANGED <<itemVars, mgrVars, chanVars, playerVars,
                   utilVars>>

\* InventoryView::take
ViewTake ==
    /\ vlive
    /\ \E at \in SlotArgs, c \in Counts :
          /\ vcall' = [NoViewCall EXCEPT !.op = "take", !.at = at,
                                         !.count = c]
          /\ IF ~(at < ViewSlots(view))
             THEN /\ vret' = [kind |-> "err", val |-> None]
                  /\ UNCHANGED view
                  /\ UNCHANGED <<db, notified, ncalls, chanVars>>
             ELSE IF view.backing = "Transient"
             THEN LET r == Transient_take(view.contents, at, c)
                  IN /\ view' = [view EXCEPT !.contents = r.contents]
                     /\ vret' = [kind |-> "ok", val |-> r.ret]
                     /\ UNCHANGED <<db, notified, ncalls, chanVars>>
             ELSE LET r == Stored_take(db[view.key], view.key, at, c)
                  IN /\ CanLock(ViewCaller)
                     /\ vret' = [kind |-> r.kind, val |-> r.ret]
                     /\ StoredCommit(r)
                     /\ UNCHANGED view
    /\ vpre' = view.contents
    /\ vdb' = db
    /\ UNCHANGED <<vlive, vcleared>>
    /\ UNCHANGED <<itemVars, mgrThreadVars, playerVars,
                   utilVars>>

\* InventoryView::put
ViewPut ==
    /\ vlive
    /\ \E at \in SlotArgs, stack \in PutStacks :
          /\ vcall' = [NoViewCall EXCEPT !.op = "put", !.at = at,
                                         !.stack = Some(stack)]
          /\ IF ~(at < ViewSlots(view))
             THEN /\ vret' = [kind |-> "err", val |-> None]
                  /\ UNCHANGED view
                  /\ UNCHANGED <<db, notified, ncalls, chanVars>>
             ELSE IF view.backing = "Transient"
             THEN LET r == Transient_put(view.contents, at, stack)
                  IN /\ view' = [view EXCEPT !.contents = r.contents]
                     /\ vret' = [kind |-> "ok", val |-> r.ret]
                     /\ UNCHANGED <<db, notified, ncalls, chanVars>>
             ELSE LET r == Stored_put(db[view.key], view.key, at, stack)
                  IN /\ CanLock(ViewCaller)
                     /\ vret' = [kind |-> r.kind, val |-> r.ret]
                     /\ StoredCommit(r)
                     /\ UNCHANGED view
    /\ vpre' = view.contents
    /\ vdb' = db
    /\ UNCHANGED <<vlive, vcleared>>
    /\ UNCHANGED <<itemVars, mgrThreadVars, playerVars,
                   utilVars>>

\* InventoryView::clear: for a Transient backing it only logs
\* "TODO drop transient"
ViewClear ==
    /\ vlive
    /\ vcall' = [NoViewCall EXCEPT !.op = "clear"]
    /\ vret' = NoViewResult
    /\ vcleared' = TRUE
    /\ vpre' = view.contents
    /\ vdb' = db
    /\ UNCHANGED <<view, vlive>>
    /\ UNCHANGED <<itemVars, mgrVars, chanVars, playerVars,
                   utilVars>>

\* Drop for InventoryView: clear(), then the view and the vector of its
\* Transient backing are freed
ViewDrop ==
    /\ vlive
    /\ vcall' = [NoViewCall EXCEPT !.op = "drop"]
    /\ vret' = NoViewResult
    /\ vcleared' = TRUE
    /\ vlive' = FALSE
    /\ view' = [view EXCEPT !.contents = << >>]
    /\ vpre' = view.contents
    /\ vdb' = db
    /\ UNCHANGED <<itemVars, mgrVars, chanVars, playerVars,
                   utilVars>>

\* ------------------------------------------------------------------------
\* game_state/player.rs: Player, PlayerContext, PlayerManager
\* ------------------------------------------------------------------------
\* the player names clients connect with
Names == {"alice", "bob"}

\* the client sessions that call connect and hold a PlayerContext
Clients == {1, 2}

\* PlayerPositionUpdate::position: the spawn point of new_player, and the
\* place the clients report in update_position
SpawnPosition == <<5, 10, 5>>
Positions == {<<6, 10, 5>>}

\* (height, width) of the main inventory new_player creates
MainInventoryDims == <<4, 8>>

\* InventoryKey::as_bytes: the 16 bytes of the uuid
UuidLen == 16
InventoryKey_as_bytes(key) ==
    [i \in 1..UuidLen |-> IF i = UuidLen THEN key ELSE 0]

\* InventoryKey::parse_bytes; None is the Err of try_into
InventoryKey_parse_bytes(bytes) ==
    IF Len(bytes) # UuidLen THEN None ELSE Some(bytes[UuidLen])

\* Player::to_server_proto
Player_to_server_proto(player) ==
    [name |-> player.name,
     last_position |-> Some(player.last_position),
     main_inventory |-> InventoryKey_as_bytes(player.main_inventory_key)]

\* Player::from_server_proto on inventory store d; None is the Err result.
\* The inventory popup and the hotbar view are Stored views of the main
\* inventory, made by InventoryView::new_stored.
Player_from_server_proto(d, proto) ==
    LET main_inventory_key == InventoryKey_parse_bytes(proto.main_inventory)
    IN IF IsNone(main_inventory_key) THEN None
       ELSE IF IsNone(proto.last_position) THEN None
       ELSE IF IsNone(new_stored(d[Unwrap(main_inventory_key)],
                                 Unwrap(main_inventory_key)))
       THEN None
       ELSE Some([name |-> proto.name,
                  main_inventory_key |-> Unwrap(main_inventory_key),
                  last_position |-> Unwrap(proto.last_position)])

\* Player::new_player once make_inventory has returned main_inventory_key
\* and stored the inventory in d; None is the Err result
Player_new_player(d, name, main_inventory_key) ==
    IF IsNone(new_stored(d[main_inventory_key], main_inventory_key))
    THEN None
    ELSE Some([name |-> name,
               main_inventory_key |-> main_inventory_key,
               last_position |-> SpawnPosition])

\* where a GameDatabase call of connect returns Err: nowhere, in db.get of
\* the player record, in the db.put of make_inventory, in the db.put of
\* write_back
ConnectFaults == {"none", "get", "make_inventory", "write_back"}

\* names present in active_players
ActiveNames == {n \in Names : IsSome(active[n])}

\* PlayerManager::new: no player, the token not cancelled, the writeback
\* task spawned by start_writeback and its handle stored
PlayersStart ==
    /\ active = [n \in Names |-> None]
    /\ pstore = [n \in Names |-> None]
    /\ ctx = [c \in Clients |-> None]
    /\ cpc = [c \in Clients |-> "idle"]
    /\ carg = [c \in Clients |-> None]
    /\ cres = [c \in Clients |-> "none"]
    /\ alock = "none"
    /\ cancelled = FALSE
    /\ lpc = "check"
    /\ fleft = {}
    /\ writeback = TRUE
    /\ spc = "idle"
    /\ vacant = FALSE
    /\ lastw = [n \in Names |-> "none"]
    /\ owed = [n \in Names |-> FALSE]

\* the variables of the inventory manager a PlayerManager call leaves alone
mgrIdleVars == <<lock, notified, pc, call, invs, idx, mres, result,
                 reentered, ncalls, snapDb, snapNote, loaded, ran, incrs,
                 pureIncr>>

\* a write_back that returns Ok without db.put
write_back_dropped(who, player) ==
    UNCHANGED <<pstore, lastw, owed>>

\* PlayerManager::write_back has stored the record of player: db.put of
\* to_server_proto under the player's name
write_back(who, player) ==
    /\ pstore' = [pstore EXCEPT ![player.name] =
                     Some(Player_to_server_proto(player))]
    /\ lastw' = [lastw EXCEPT ![player.name] = who]
    /\ owed' = [owed EXCEPT ![player.name] = FALSE]

\* a client calls connect(name) and reaches self.active_players.lock()
CallConnect(c) ==
    /\ cpc[c] = "idle"
    /\ IsNone(ctx[c])
    /\ \E name \in Names : carg' = [carg EXCEPT ![c] = Some(name)]
    /\ cpc' = [cpc EXCEPT ![c] = "lock"]
    /\ cres' = [cres EXCEPT ![c] = "none"]
    /\ UNCHANGED <<active, pstore, ctx, alock, cancelled, lpc, fleft,
                   writeback, spc, vacant, lastw, owed>>
    /\ UNCHANGED <<itemVars, mgrVars, chanVars, viewVars,
                   utilVars>>

\* connect without its contains_key check
ConnectUnchecked(c) ==
    /\ cpc[c] = "lock"
    /\ alock = "none"
    /\ cpc' = [cpc EXCEPT ![c] = "idle"]
    /\ \E fault \in ConnectFaults :
         LET name == Unwrap(carg[c])
         IN IF fault = "get"
            THEN /\ cres' = [cres EXCEPT ![c] = "err"]
                 /\ UNCHANGED <<active, ctx, db, allocated, pstore, lastw,
                                owed>>
            ELSE IF IsSome(pstore[name])
            THEN LET player ==
                        Player_from_server_proto(db, Unwrap(pstore[name]))
                 IN /\ IF IsNone(player)
                       THEN /\ cres' = [cres EXCEPT ![c] = "err"]
                            /\ UNCHANGED <<active, ctx>>
                       ELSE /\ active' = [active EXCEPT ![name] = player]
                            /\ ctx' = [ctx EXCEPT ![c] = Some(name)]
                            /\ cres' = [cres EXCEPT ![c] = "ok"]
                    /\ UNCHANGED <<db, allocated, pstore, lastw, owed>>
            ELSE \* new_player: make_inventory(4, 8), the views, write_back
                 /\ allocated # Keys
                 /\ allocated' = allocated \cup {FreshKey}
                 /\ LET inventory ==
                            Unwrap(Inventory_new(MainInventoryDims, FreshKey))
                        stored == [db EXCEPT ![FreshKey] =
                                      Some(Inventory_to_proto(inventory))]
                        player == Player_new_player(stored, name, FreshKey)
                    IN IF fault = "make_inventory"
                       THEN /\ cres' = [cres EXCEPT ![c] = "err"]
                            /\ UNCHANGED <<active, ctx, db, pstore, lastw, owed>>
                       ELSE IF IsNone(player) \/ fault = "write_back"
                       THEN /\ db' = stored
                            /\ cres' = [cres EXCEPT ![c] = "err"]
                            /\ UNCHANGED <<active, ctx, pstore, lastw, owed>>
                       ELSE /\ db' = stored
                            /\ write_back("client", Unwrap(player))
                            /\ active' = [active EXCEPT ![name] = player]
                            /\ ctx' = [ctx EXCEPT ![c] = Some(name)]
                            /\ cres' = [cres EXCEPT ![c] = "ok"]
    /\ carg' = [carg EXCEPT ![c] = None]
    /\ UNCHANGED <<alock, cancelled, lpc, fleft, writeback, spc, vacant>>
    /\ UNCHANGED <<itemVars, mgrIdleVars, chanVars, viewVars,
                   utilVars>>

\* PlayerManager::connect from active_players.lock() to its return; the
\* guard of the mutex is held throughout, so no flush or disconnect runs in
\* between
Connect(c) ==
    /\ cpc[c] = "lock"
    /\ alock = "none"
    /\ cpc' = [cpc EXCEPT ![c] = "idle"]
    /\ \E fault \in ConnectFaults :
         LET name == Unwrap(carg[c])
         IN IF IsSome(active[name])
            THEN \* bail!("Player {name} already connected")
                 /\ cres' = [cres EXCEPT ![c] = "already"]
                 /\ UNCHANGED <<active, ctx, db, allocated, pstore, lastw,
                                owed>>
            ELSE IF fault = "get"
            THEN /\ cres' = [cres EXCEPT ![c] = "err"]
                 /\ UNCHANGED <<active, ctx, db, allocated, pstore, lastw,
                                owed>>
            ELSE IF IsSome(pstore[name])
            THEN LET player ==
                        Player_from_server_proto(db, Unwrap(pstore[name]))
                 IN /\ IF IsNone(player)
                       THEN /\ cres' = [cres EXCEPT ![c] = "err"]
                            /\ UNCHANGED <<active, ctx>>
                       ELSE /\ active' = [active EXCEPT ![name] = player]
                            /\ ctx' = [ctx EXCEPT ![c] = Some(name)]
                            /\ cres' = [cres EXCEPT ![c] = "ok"]
                    /\ UNCHANGED <<db, allocated, pstore, lastw, owed>>
            ELSE \* new_player: make_inventory(4, 8), the views, write_back
                 /\ allocated # Keys
                 /\ allocated' = allocated \cup {FreshKey}
                 /\ LET inventory ==
                            Unwrap(Inventory_new(MainInventoryDims, FreshKey))
                        stored == [db EXCEPT ![FreshKey] =
                                      Some(Inventory_to_proto(inventory))]
                        player == Player_new_player(stored, name, FreshKey)
                    IN IF fault = "make_inventory"
                       THEN /\ cres' = [cres EXCEPT ![c] = "err"]
                            /\ UNCHANGED <<active, ctx, db, pstore, lastw, owed>>
                       ELSE IF IsNone(player) \/ fault = "write_back"
                       THEN /\ db' = stored
                            /\ cres' = [cres EXCEPT ![c] = "err"]
                            /\ UNCHANGED <<active, ctx, pstore, lastw, owed>>
                       ELSE /\ db' = stored
                            /\ write_back("client", Unwrap(player))
                            /\ active' = [active EXCEPT ![name] = player]
                            /\ ctx' = [ctx EXCEPT ![c] = Some(name)]
                            /\ cres' = [cres EXCEPT ![c] = "ok"]
    /\ carg' = [carg EXCEPT ![c] = None]
    /\ UNCHANGED <<alock, cancelled, lpc, fleft, writeback, spc, vacant>>
    /\ UNCHANGED <<itemVars, mgrIdleVars, chanVars, viewVars,
                   utilVars>>

\* PlayerContext::update_position
update_position(c) ==
    /\ IsSome(ctx[c])
    /\ IsSome(active[Unwrap(ctx[c])])
    /\ \E pos \in Positions :
          active' = [active EXCEPT ![Unwrap(ctx[c])] =
                        Some([Unwrap(@) EXCEPT !.last_position = pos])]
    /\ UNCHANGED <<pstore, ctx, cpc, carg, cres, alock, cancelled, lpc,
                   fleft, writeback, spc, vacant, lastw, owed>>
    /\ UNCHANGED <<itemVars, mgrVars, chanVars, viewVars,
                   utilVars>>

\* drop_disconnect that leaves the entry in the table when write_back fails
drop_disconnect_keeping(c) ==
    /\ IsSome(ctx[c])
    /\ alock = "none"
    /\ ctx' = [ctx EXCEPT ![c] = None]
    /\ cres' = [cres EXCEPT ![c] = "none"]
    /\ LET name == Unwrap(ctx[c])
       IN IF IsSome(active[name])
          THEN /\ \E ok \in BOOLEAN :
                    IF ok
                    THEN /\ write_back("client", Unwrap(active[name]))
                         /\ active' = [active EXCEPT ![name] = None]
                    ELSE UNCHANGED <<active, pstore, lastw, owed>>
               /\ UNCHANGED vacant
          ELSE /\ vacant' = TRUE
               /\ UNCHANGED <<active, pstore, lastw, owed>>
    /\ UNCHANGED <<cpc, carg, alock, cancelled, lpc, fleft, writeback, spc>>
    /\ UNCHANGED <<itemVars, mgrVars, chanVars, viewVars,
                   utilVars>>

\* Drop for PlayerContext: PlayerManager::drop_disconnect(name). Under the
\* lock of active_players: write_back, whose failure is only logged, then
\* entry.remove(); a vacant entry is logged as an inconsistency.
drop_disconnect(c) ==
    /\ IsSome(ctx[c])
    /\ alock = "none"
    /\ ctx' = [ctx EXCEPT ![c] = None]
    /\ cres' = [cres EXCEPT ![c] = "none"]
    /\ LET name == Unwrap(ctx[c])
       IN IF IsSome(active[name])
          THEN /\ \E ok \in BOOLEAN :
                    IF ok
                    THEN write_back("client", Unwrap(active[name]))
                    ELSE UNCHANGED <<pstore, lastw, owed>>
               /\ active' = [active EXCEPT ![name] = None]
               /\ UNCHANGED vacant
          ELSE /\ vacant' = TRUE
               /\ UNCHANGED <<active, pstore, lastw, owed>>
    /\ UNCHANGED <<cpc, carg, alock, cancelled, lpc, fleft, writeback, spc>>
    /\ UNCHANGED <<itemVars, mgrVars, chanVars, viewVars,
                   utilVars>>

\* PlayerManager::flush, entry: self.active_players.lock() and the start of
\* the iteration over values()
flush_begin(who) ==
    /\ alock = "none"
    /\ alock' = who
    /\ fleft' = ActiveNames

\* PlayerManager::flush, one iteration: write_back of a player the iterator
\* yields next (a HashMap yields in no particular order)
flush_write(who, name) ==
    /\ name \in fleft
    /\ write_back(who, Unwrap(active[name]))
    /\ fleft' = fleft \ {name}
    /\ UNCHANGED alock

\* PlayerManager::flush, `?` on a failed write_back: the guard is dropped
\* and the remaining players are not written
flush_fail ==
    /\ fleft # {}
    /\ alock' = "none"
    /\ fleft' = {}
    /\ UNCHANGED <<pstore, lastw, owed>>

\* PlayerManager::flush, the iteration is over: Ok(())
flush_end ==
    /\ fleft = {}
    /\ alock' = "none"
    /\ UNCHANGED <<fleft, pstore, lastw, owed>>

\* a loop condition that does not read the token
LoopCheckBlind ==
    /\ lpc = "check"
    /\ lpc' = "select"
    /\ UNCHANGED <<active, pstore, ctx, cpc, carg, cres, alock, cancelled,
                   fleft, writeback, spc, vacant, lastw, owed>>
    /\ UNCHANGED <<itemVars, mgrVars, chanVars, viewVars,
                   utilVars>>

\* writeback_loop: `while !self.shutdown.is_cancelled()`
LoopCheck ==
    /\ lpc = "check"
    /\ lpc' = IF cancelled THEN "ok" ELSE "select"
    /\ UNCHANGED <<active, pstore, ctx, cpc, carg, cres, alock, cancelled,
                   fleft, writeback, spc, vacant, lastw, owed>>
    /\ UNCHANGED <<itemVars, mgrVars, chanVars, viewVars,
                   utilVars>>

\* writeback_loop: select! returns, because PLAYER_WRITEBACK_INTERVAL has
\* passed or because the token is cancelled
LoopSelect ==
    /\ lpc = "select"
    /\ lpc' = "flush"
    /\ UNCHANGED <<active, pstore, ctx, cpc, carg, cres, alock, cancelled,
                   fleft, writeback, spc, vacant, lastw, owed>>
    /\ UNCHANGED <<itemVars, mgrVars, chanVars, viewVars,
                   utilVars>>

\* writeback_loop: block_in_place(|| self.flush()) takes the lock
LoopFlushBegin ==
    /\ lpc = "flush"
    /\ flush_begin("loop")
    /\ lpc' = "flushing"
    /\ UNCHANGED <<active, pstore, ctx, cpc, carg, cres, cancelled,
                   writeback, spc, vacant, lastw, owed>>
    /\ UNCHANGED <<itemVars, mgrVars, chanVars, viewVars,
                   utilVars>>

\* writeback_loop: one write_back of the flush; a failure leaves flush and,
\* through the `?` after block_in_place, the loop: the task ends with Err
LoopFlushWrite ==
    /\ lpc = "flushing"
    /\ alock = "loop"
    /\ \E name \in fleft, ok \in BOOLEAN :
          IF ok
          THEN /\ flush_write("loop", name)
               /\ UNCHANGED lpc
          ELSE /\ flush_fail
               /\ lpc' = "err"
    /\ UNCHANGED <<active, ctx, cpc, carg, cres, cancelled, writeback, spc,
                   vacant>>
    /\ UNCHANGED <<itemVars, mgrVars, chanVars, viewVars,
                   utilVars>>

\* writeback_loop: flush returned Ok, back to the loop condition
LoopFlushEnd ==
    /\ lpc = "flushing"
    /\ alock = "loop"
    /\ flush_end
    /\ lpc' = "check"
    /\ UNCHANGED <<active, ctx, cpc, carg, cres, cancelled, writeback, spc,
                   vacant>>
    /\ UNCHANGED <<itemVars, mgrVars, chanVars, viewVars,
                   utilVars>>

\* PlayerManager::request_shutdown: shutdown.cancel()
request_shutdown ==
    /\ spc = "idle"
    /\ cancelled' = TRUE
    /\ spc' = "requested"
    /\ owed' = [n \in Names |-> IsSome(active[n])]
    /\ UNCHANGED <<active, pstore, ctx, cpc, carg, cres, alock, lpc, fleft,
                   writeback, vacant, lastw>>
    /\ UNCHANGED <<itemVars, mgrVars, chanVars, viewVars,
                   utilVars>>

\* await_shutdown: the JoinHandle is swapped out of self.writeback
AwaitTake ==
    /\ spc = "requested"
    /\ writeback
    /\ writeback' = FALSE
    /\ spc' = "join"
    /\ UNCHANGED <<active, pstore, ctx, cpc, carg, cres, alock, cancelled,
                   lpc, fleft, vacant, lastw, owed>>
    /\ UNCHANGED <<itemVars, mgrVars, chanVars, viewVars,
                   utilVars>>

\* await_shutdown that goes on to its flush without awaiting the handle
AwaitJoinDetached ==
    /\ spc = "join"
    /\ spc' = IF lpc = "err" THEN "returned_err" ELSE "flush"
    /\ UNCHANGED <<active, pstore, ctx, cpc, carg, cres, alock, cancelled,
                   lpc, fleft, writeback, vacant, lastw, owed>>
    /\ UNCHANGED <<itemVars, mgrVars, chanVars, viewVars,
                   utilVars>>

\* await_shutdown: `writeback_handle.unwrap().await??` completes once the
\* loop task has ended; its Err is returned without a flush
AwaitJoin ==
    /\ spc = "join"
    /\ lpc \in {"ok", "err"}
    /\ spc' = IF lpc = "err" THEN "returned_err" ELSE "flush"
    /\ UNCHANGED <<active, pstore, ctx, cpc, carg, cres, alock, cancelled,
                   lpc, fleft, writeback, vacant, lastw, owed>>
    /\ UNCHANGED <<itemVars, mgrVars, chanVars, viewVars,
                   utilVars>>

\* await_shutdown: block_in_place(|| self.flush()) takes the lock
AwaitFlushBegin ==
    /\ spc = "flush"
    /\ flush_begin("final")
    /\ spc' = "flushing"
    /\ UNCHANGED <<active, pstore, ctx, cpc, carg, cres, cancelled, lpc,
                   writeback, vacant, lastw, owed>>
    /\ UNCHANGED <<itemVars, mgrVars, chanVars, viewVars,
                   utilVars>>

\* await_shutdown: one write_back of the final flush; a failure is returned
AwaitFlushWrite ==
    /\ spc = "flushing"
    /\ alock = "final"
    /\ \E name \in fleft, ok \in BOOLEAN :
          IF ok
          THEN /\ flush_write("final", name)
               /\ UNCHANGED spc
          ELSE /\ flush_fail
               /\ spc' = "returned_err"
    /\ UNCHANGED <<active, ctx, cpc, carg, cres, cancelled, lpc, writeback,
                   vacant>>
    /\ UNCHANGED <<itemVars, mgrVars, chanVars, viewVars,
                   utilVars>>

\* await_shutdown: the final flush returned Ok, Ok(()) is returned
AwaitFlushEnd ==
    /\ spc = "flushing"
    /\ alock = "final"
    /\ flush_end
    /\ spc' = "returned_ok"
    /\ UNCHANGED <<active, ctx, cpc, carg, cres, cancelled, lpc, writeback,
                   vacant>>
    /\ UNCHANGED <<itemVars, mgrVars, chanVars, viewVars,
                   utilVars>>

\* ------------------------------------------------------------------------
\* database/database_engine.rs: KeySpace
\* ------------------------------------------------------------------------
KeySpaces ==
    {"Metadata", "MapchunkData", "Plugin", "Inventory", "UserMeta", "Player"}

\* KeySpace::identifier: the ASCII codes of b'0', b'm', b'p', b'i', b'u', b'P'
KeySpace_identifier(ns) ==
    CASE ns = "Metadata" -> 48
      [] ns = "MapchunkData" -> 109
      [] ns = "Plugin" -> 112
      [] ns = "Inventory" -> 105
      [] ns = "UserMeta" -> 117
      [] ns = "Player" -> 80

\* make_key that leaves the tag out
KeySpace_make_key_untagged(ns, key) ==
    key

\* KeySpace::make_key: the identifier byte followed by the bytes of key
KeySpace_make_key(ns, key) ==
    <<KeySpace_identifier(ns)>> \o key

\* the bytes a raw id is made of here: 0 and the tags of the Inventory and
\* Player key spaces
RawBytes == {0, 105, 80}

\* the raw ids handed to make_key: every byte string up to MaxRaw bytes
RawIds == UNION {[1..n -> RawBytes] : n \in 0..MaxRaw}

\* a call of make_key that has not run yet
PendingKey(ns, raw) == [ns |-> ns, raw |-> raw, key |-> None]

\* one of the two calls runs
DoMakeKey ==
    /\ \E w \in {"a", "b"} :
          /\ IsNone(made[w].key)
          /\ made' = [made EXCEPT ![w].key =
                         Some(KeySpace_make_key(made[w].ns, made[w].raw))]
    /\ UNCHANGED <<rt, ins, counter, ipc, got, earlier, vids, furnace>>
    /\ UNCHANGED <<itemVars, mgrVars, chanVars, viewVars, playerVars>>

\* ------------------------------------------------------------------------
\* game_state/inventory.rs: the conversions between a stored record and an
\* Inventory, one after the other
\* ------------------------------------------------------------------------
\* the slots of a decoded record: prost decodes any field values, so a slot
\* can carry an empty item_name with a quantity or limits, and a non-empty
\* item_name with quantity 0
SlotProtos ==
    {EmptyStackProto,
     [item_name |-> "", quantity |-> 1, max_stack |-> 0, stackable |-> FALSE],
     [item_name |-> "", quantity |-> 0, max_stack |-> 2, stackable |-> TRUE],
     [item_name |-> "a", quantity |-> 0, max_stack |-> 2, stackable |-> TRUE],
     [item_name |-> "a", quantity |-> 1, max_stack |-> 2, stackable |-> TRUE],
     [item_name |-> "b", quantity |-> 1, max_stack |-> 0, stackable |-> FALSE]}

\* the shapes of the records and inventories converted
RecordDims == {<<1, 1>>, <<1, 2>>, <<2, 1>>}

\* decoded records with height * width == len(contents) > 0
InventoryProtos ==
    UNION {[height : {d[1]}, width : {d[2]},
            contents : [1..(d[1] * d[2]) -> SlotProtos]] : d \in RecordDims}

\* the slots of an Inventory in memory: empty, or a stack of a named item
InventorySlots ==
    {None} \cup {Some(p) : p \in {q \in SlotProtos : q.item_name # ""}}

\* Inventory values of key 1
Inventories ==
    UNION {[key : {1}, dimensions : {d},
            contents : [1..(d[1] * d[2]) -> InventorySlots]] : d \in RecordDims}

\* a round trip that has not started: from a record ("proto") or from an
\* Inventory ("inv")
PendingTrip(from, input) ==
    [from |-> from, input |-> input, stage |-> 0, mid |-> None, out |-> None]

\* the first conversion of the round trip: from_proto of the record, or
\* to_proto of the Inventory
DoConvert ==
    /\ rt.stage = 0
    /\ rt' = [rt EXCEPT
                 !.stage = 1,
                 !.mid = IF rt.from = "proto"
                         THEN Inventory_from_proto(rt.input, 1)
                         ELSE Some(Inventory_to_proto(rt.input))]
    /\ UNCHANGED <<made, ins, counter, ipc, got, earlier, vids, furnace>>
    /\ UNCHANGED <<itemVars, mgrVars, chanVars, viewVars, playerVars>>

\* the conversion back: to_proto of the Inventory, or from_proto of the
\* record
DoConvertBack ==
    /\ rt.stage = 1
    /\ IsSome(rt.mid)
    /\ rt' = [rt EXCEPT
                 !.stage = 2,
                 !.out = IF rt.from = "proto"
                         THEN Some(Inventory_to_proto(Unwrap(rt.mid)))
                         ELSE Inventory_from_proto(Unwrap(rt.mid), 1)]
    /\ UNCHANGED <<made, ins, counter, ipc, got, earlier, vids, furnace>>
    /\ UNCHANGED <<itemVars, mgrVars, chanVars, viewVars, playerVars>>

\* ------------------------------------------------------------------------
\* game_state/inventory.rs: Inventory::try_insert
\* ------------------------------------------------------------------------
\* the stacks in play, built by ItemStack::new with any quantity: item "a"
\* stacks up to 2, item "b" does not stack
InsertStacks ==
    [item_name : {"a"}, quantity : 0..MaxQty, max_stack : {2},
     stackable : {TRUE}]
    \cup [item_name : {"b"}, quantity : {1}, max_stack : {0},
          stackable : {FALSE}]

\* the slots of the inventory before the first insertion
InsertSlotValues == {None} \cup {Some(x) : x \in {y \in InsertStacks : y.quantity > 0}}

\* try_insert, first loop from slot i on: try_merge into every occupied
\* slot in index order until nothing remains
RECURSIVE MergeLoop(_, _, _)
MergeLoop(contents, i, stack) ==
    IF i > Len(contents) THEN [contents |-> contents, rest |-> Some(stack)]
    ELSE IF IsNone(contents[i]) THEN MergeLoop(contents, i + 1, stack)
    ELSE LET r == ItemStack_try_merge(Unwrap(contents[i]), stack)
             merged_into == [contents EXCEPT ![i] = Some(r.self)]
         IN IF IsNone(r.ret)
            THEN [contents |-> merged_into, rest |-> None]
            ELSE MergeLoop(merged_into, i + 1, Unwrap(r.ret))

\* the lowest-index empty slot of contents, 0 if there is none
FirstEmpty(contents) ==
    IF \E i \in 1..Len(contents) : IsNone(contents[i])
    THEN CHOOSE i \in 1..Len(contents) :
            /\ IsNone(contents[i])
            /\ \A j \in 1..(i - 1) : IsSome(contents[j])
    ELSE 0

\* try_insert that takes an empty slot before it tries to merge
Inventory_try_insert_empty_first(contents, stack) ==
    IF FirstEmpty(contents) # 0
    THEN [contents |-> [contents EXCEPT ![FirstEmpty(contents)] = Some(stack)],
          ret |-> None]
    ELSE LET m == MergeLoop(contents, 1, stack)
         IN [contents |-> m.contents, ret |-> m.rest]

\* Inventory::try_insert: the new contents and the returned leftover
Inventory_try_insert(contents, stack) ==
    LET m == MergeLoop(contents, 1, stack)
    IN IF IsNone(m.rest) THEN [contents |-> m.contents, ret |-> None]
       ELSE IF FirstEmpty(m.contents) # 0
       THEN [contents |-> [m.contents EXCEPT
                              ![FirstEmpty(m.contents)] = m.rest],
             ret |-> None]
       ELSE [contents |-> m.contents, ret |-> m.rest]

\* an inventory nothing has been inserted into yet
FreshInsert(contents) ==
    [n |-> 0, before |-> contents, stack |-> None, after |-> contents,
     leftover |-> None]

\* one call of try_insert on the inventory as the last call left it
DoTryInsert ==
    /\ ins.n < MaxInserts
    /\ \E stack \in InsertStacks :
          LET r == Inventory_try_insert(ins.after, stack)
          IN ins' = [n |-> ins.n + 1, before |-> ins.after,
                     stack |-> Some(stack), after |-> r.contents,
                     leftover |-> r.ret]
    /\ UNCHANGED <<made, rt, counter, ipc, got, earlier, vids, furnace>>
    /\ UNCHANGED <<itemVars, mgrVars, chanVars, viewVars, playerVars>>

\* ------------------------------------------------------------------------
\* game_state/inventory.rs: INVENTORY_VIEW_COUNTER and next_id, called by
\* threads that create views
\* ------------------------------------------------------------------------
\* Width of the counter. The source uses an AtomicU64, whose fetch_add
\* wraps around; the model narrows it to 16 bits.
IdWidth == 16
IdLimit == 2 ^ IdWidth

\* views whose creation has begun
Begun == Len(vids) + Cardinality({t \in Threads : ipc[t] # "idle"})

\* thread t calls InventoryView::new_transient or new_stored
BeginView(t) ==
    /\ ipc[t] = "idle"
    /\ Begun < MaxViews
    /\ ipc' = [ipc EXCEPT ![t] = "new"]
    /\ earlier' = [earlier EXCEPT ![t] = {vids[i] : i \in 1..Len(vids)}]
    /\ UNCHANGED <<counter, got, vids>>
    /\ UNCHANGED <<made, rt, ins, furnace>>
    /\ UNCHANGED <<itemVars, mgrVars, chanVars, viewVars, playerVars>>

\* a next_id that reads the counter and leaves it as it is
next_id_load_only(t) ==
    /\ ipc[t] = "new"
    /\ got' = [got EXCEPT ![t] = Some(counter)]
    /\ ipc' = [ipc EXCEPT ![t] = "built"]
    /\ UNCHANGED <<counter, earlier, vids>>
    /\ UNCHANGED <<made, rt, ins, furnace>>
    /\ UNCHANGED <<itemVars, mgrVars, chanVars, viewVars, playerVars>>

\* next_id: INVENTORY_VIEW_COUNTER.fetch_add(1, SeqCst), one atomic step
next_id(t) ==
    /\ ipc[t] = "new"
    /\ got' = [got EXCEPT ![t] = Some(counter)]
    /\ counter' = (counter + 1) % IdLimit
    /\ ipc' = [ipc EXCEPT ![t] = "built"]
    /\ UNCHANGED <<earlier, vids>>
    /\ UNCHANGED <<made, rt, ins, furnace>>
    /\ UNCHANGED <<itemVars, mgrVars, chanVars, viewVars, playerVars>>

\* the constructor returns the view with the id it drew
EndView(t) ==
    /\ ipc[t] = "built"
    /\ vids' = Append(vids, Unwrap(got[t]))
    /\ got' = [got EXCEPT ![t] = None]
    /\ ipc' = [ipc EXCEPT ![t] = "idle"]
    /\ UNCHANGED <<counter, earlier>>
    /\ UNCHANGED <<made, rt, ins, furnace>>
    /\ UNCHANGED <<itemVars, mgrVars, chanVars, viewVars, playerVars>>

\* ------------------------------------------------------------------------
\* default_game/furnace.rs: the furnace block and its timer callback
\* ------------------------------------------------------------------------
\* The item definitions in play: "a" is an ordinary stackable material, "b"
\* a tool-like item that does not stack, "c" the smelted product and "f" a
\* fuel.
FurnaceStack(name, q) ==
    [item_name |-> name, quantity |-> q,
     max_stack |-> IF name = "b" THEN 0 ELSE 2,
     stackable |-> name # "b"]

\* smelting_recipes: one input slot, a result stack, and the number of
\* ticks a smelt takes as metadata
SmeltingRecipes ==
    { [slot |-> "a", result |-> FurnaceStack("c", 1), metadata |-> 2],
      [slot |-> "b", result |-> FurnaceStack("c", 1), metadata |-> 1] }

\* smelting_fuels: the metadata is the number of ticks the flame lasts
SmeltingFuels ==
    { [slot |-> "f", result |-> EmptyStackProto, metadata |-> 2] }

\* RecipeBook::find over a single slot: the recipe whose slot names the
\* item of the stack, if there is one
RecipeBook_find(book, stack) ==
    IF IsNone(stack) THEN None
    ELSE LET found == {r \in book : r.slot = Unwrap(stack).item_name}
         IN IF found = {} THEN None ELSE Some(CHOOSE r \in found : TRUE)

\* RecipeSlot::quantity of a slot naming an item: recipes take one item
RecipeSlot_quantity(recipe) == IF recipe.slot = "" THEN 0 ELSE 1

\* what a player can hold in the hand when placing into the input slot or
\* the fuel slot of the furnace popup
FurnaceHand ==
    {FurnaceStack("a", q) : q \in 0..MaxQty}
        \cup {FurnaceStack("b", 1)}
        \cup {FurnaceStack("f", q) : q \in 1..2}

\* FurnaceState::default() in a furnace whose three inventories are empty
NewFurnace ==
    [input |-> None, output |-> None, fuel |-> None,
     flame_left |-> 0, total_flame |-> 0, smelt_progress |-> 0,
     smelt_ticks |-> 0, smelted_item |-> "",
     on |-> FALSE, saved |-> FALSE, reached |-> FALSE, merged |-> FALSE]

\* shut_down_furnace: the block goes to its off appearance and the progress
\* is dropped; the result says whether anything changed
FurnaceTimerCallback_shut_down_furnace(f) ==
    [f |-> [f EXCEPT !.on = FALSE, !.smelt_progress = 0],
     dirty |-> f.on \/ f.smelt_progress > 0]

\* set_appearance_on
FurnaceTimerCallback_set_appearance_on(f) ==
    [f |-> [f EXCEPT !.on = TRUE], dirty |-> ~f.on]

\* inline_callback, first half: burn the flame down or light the furnace
FurnaceFlame(f) ==
    IF f.flame_left = 0
    THEN LET fueling_recipe == RecipeBook_find(SmeltingFuels, f.fuel)
         IN IF IsSome(fueling_recipe)
            THEN IF IsSome(RecipeBook_find(SmeltingRecipes, f.input))
                 THEN LET t == MaybeStack_try_take_all(f.fuel,
                                 Some(RecipeSlot_quantity(
                                          Unwrap(fueling_recipe))))
                      IN IF IsSome(t.ret)
                         THEN [f |-> [f EXCEPT
                                        !.fuel = t.self,
                                        !.flame_left =
                                            Unwrap(fueling_recipe).metadata,
                                        !.on = TRUE],
                               dirty |-> TRUE]
                         ELSE [f |-> f, dirty |-> FALSE]
                 ELSE FurnaceTimerCallback_shut_down_furnace(f)
            ELSE FurnaceTimerCallback_shut_down_furnace(f)
    ELSE FurnaceTimerCallback_set_appearance_on(
             [f EXCEPT !.flame_left = f.flame_left - 1])

\* the name of the item in the input slot, "" for an empty slot
CurrentInput(f) ==
    IF IsSome(f.input) THEN Unwrap(f.input).item_name ELSE ""

\* inline_callback, the smelt that has run its ticks: g is the furnace with
\* the progress already counted. The result's returned field says that the
\* callback returned before data.set_dirty().
FurnaceSmelt(g) ==
    LET recipe == Unwrap(RecipeBook_find(SmeltingRecipes, g.input))
        need == RecipeSlot_quantity(recipe)
        can_take_input ==
            IsSome(g.input) /\ Unwrap(g.input).quantity >= need
        m == MaybeStack_try_merge_all(g.output, Some(recipe.result))
        t == MaybeStack_try_take_all(g.input, Some(need))
        \* the warning of furnace.rs:178 is all that a failed take causes
        h == [g EXCEPT !.output = m.self, !.input = t.self,
                       !.smelt_progress = 0, !.merged = TRUE]
        again == RecipeBook_find(SmeltingRecipes, h.input)
    IN IF ~can_take_input
       THEN [f |-> [g EXCEPT !.smelted_item = "", !.smelt_progress = 0],
             returned |-> TRUE]
       ELSE IF m.ok
       THEN IF IsSome(again)
            THEN [f |-> [h EXCEPT !.smelt_ticks = Unwrap(again).metadata],
                  returned |-> FALSE]
            ELSE [f |-> [h EXCEPT !.smelted_item = ""], returned |-> TRUE]
       ELSE [f |-> g, returned |-> FALSE]

\* FurnaceTimerCallback::inline_callback on the furnace f: the furnace after
\* the callback. saved says that data.set_dirty() was called; reached and
\* merged say that this callback's progress reached smelt_ticks and that
\* try_merge_all put the result into the output slot.
FurnaceTimerCallback_inline_callback(f) ==
    LET prev_flame == f.flame_left
        lit == FurnaceFlame([f EXCEPT !.reached = FALSE, !.merged = FALSE])
        g == lit.f
        current_input == CurrentInput(g)
        recipe == RecipeBook_find(SmeltingRecipes, g.input)
    IN IF g.smelted_item # current_input
       THEN IF IsSome(recipe)
            THEN [g EXCEPT !.smelt_progress = 0,
                           !.smelt_ticks = Unwrap(recipe).metadata,
                           !.smelted_item = current_input,
                           !.saved = TRUE]
            ELSE [g EXCEPT !.smelt_progress = 0, !.smelted_item = "",
                           !.saved = FALSE]
       ELSE IF prev_flame > 0 /\ g.smelted_item # ""
       THEN LET counted ==
                    [g EXCEPT !.smelt_progress = g.smelt_progress + 1]
            IN IF counted.smelt_progress >= counted.smelt_ticks
               THEN LET r == FurnaceSmelt([counted EXCEPT !.reached = TRUE])
                    IN [r.f EXCEPT !.saved = ~r.returned]
               ELSE [counted EXCEPT !.saved = TRUE]
       ELSE [g EXCEPT !.saved = lit.dirty]

\* the timer fires for the furnace block
TimerFires ==
    /\ furnace.smelt_progress < MaxProgress
    /\ furnace' = FurnaceTimerCallback_inline_callback(furnace)
    /\ UNCHANGED <<made, rt, ins, counter, ipc, got, earlier, vids>>
    /\ UNCHANGED <<itemVars, mgrVars, chanVars, viewVars, playerVars>>

\* a player with the furnace popup open puts the stack in hand into the
\* empty input slot or the empty fuel slot (both views allow placing)
PlayerPlaces ==
    /\ \E s \in FurnaceHand :
          \/ /\ IsNone(furnace.input)
             /\ furnace' = [furnace EXCEPT !.input = Some(s)]
          \/ /\ IsNone(furnace.fuel)
             /\ furnace' = [furnace EXCEPT !.fuel = Some(s)]
    /\ UNCHANGED <<made, rt, ins, counter, ipc, got, earlier, vids>>
    /\ UNCHANGED <<itemVars, mgrVars, chanVars, viewVars, playerVars>>

\* a player takes the whole stack out of one of the three slots (every
\* view of the popup allows taking)
PlayerTakes ==
    /\ \/ /\ IsSome(furnace.input)
          /\ furnace' = [furnace EXCEPT !.input = None]
       \/ /\ IsSome(furnace.fuel)
          /\ furnace' = [furnace EXCEPT !.fuel = None]
       \/ /\ IsSome(furnace.output)
          /\ furnace' = [furnace EXCEPT !.output = None]
    /\ UNCHANGED <<made, rt, ins, counter, ipc, got, earlier, vids>>
    /\ UNCHANGED <<itemVars, mgrVars, chanVars, viewVars, playerVars>>

\* ------------------------------------------------------------------------
\* Start values of the parts a specification does not exercise
\* ------------------------------------------------------------------------
KeysStart == made = << >>
ProtoStart == rt = << >>
InsertStart == ins = << >>
IdsStart ==
    /\ counter = 1
    /\ ipc = [t \in Threads |-> "idle"]
    /\ got = [t \in Threads |-> None]
    /\ earlier = [t \in Threads |-> {}]
    /\ vids = << >>
FurnaceStart == furnace = << >>

UtilStart ==
    /\ KeysStart
    /\ ProtoStart
    /\ InsertStart
    /\ IdsStart
    /\ FurnaceStart

\* nothing but the part under study is in use: no item operation, an empty
\* inventory store at rest, no subscriber, no view, no player
RestStart ==
    /\ slot = None
    /\ pre = None
    /\ other = None
    /\ count = None
    /\ ret = None
    /\ merged = FALSE
    /\ panicked = FALSE
    /\ op = "new"
    /\ MgrStart(0)
    /\ ChanStart
    /\ ViewStart(<<1, 1>>, << >>)
    /\ PlayersStart

Init ==
    /\ \E n \in 0..(NumKeys - 1) : MgrStart(n)
    /\ ChanStart
    /\ ViewStart(<<1, 1>>, << >>)
    /\ slot = None
    /\ pre = None
    /\ other = None
    /\ count = None
    /\ ret = None
    /\ merged = FALSE
    /\ panicked = FALSE
    /\ op = "new"
    /\ PlayersStart
    /\ UtilStart

Next ==
    \E t \in Threads :
        \/ CallMakeInventory(t)
        \/ CallGet(t)
        \/ CallMutateOne(t)
        \/ CallMutateMany(t)
        \/ Acquire(t)
        \/ MakeInventoryPut(t)
        \/ GetLoad(t)
        \/ MutateOneLoad(t)
        \/ MutateOneRun(t)
        \/ MutateOneStore(t)
        \/ MutateManyLoad(t)
        \/ MutateManyRun(t)
        \/ MutateManyStore(t)
        \/ Return(t)

Spec == Init /\ [][Next]_vars

\* ------------------------------------------------------------------------
\* The algebra as a state machine: a caller applies the four operations to
\* one slot, passing stacks it constructed or the stack it was last handed.
\* ------------------------------------------------------------------------
ArgStacks == {None} \cup {Some(s) : s \in InputStacks} \cup {ret}

InitItems ==
    /\ slot \in {None} \cup {Some(s) : s \in InputStacks}
    /\ pre = None
    /\ other = None
    /\ count = None
    /\ ret = None
    /\ merged = FALSE
    /\ panicked = FALSE
    /\ op = "new"
    /\ PlayersStart
    /\ UtilStart
    /\ MgrStart(0)
    /\ ChanStart
    /\ ViewStart(<<1, 1>>, << >>)

DoTryMerge ==
    /\ ~panicked
    /\ \E o \in ArgStacks :
          LET r == MaybeStack_try_merge(slot, o)
          IN /\ slot' = r.self
             /\ ret' = r.ret
             /\ other' = o
    /\ pre' = slot
    /\ op' = "try_merge"
    /\ UNCHANGED <<count, merged, panicked>>
    /\ UNCHANGED mgrVars
    /\ UNCHANGED viewVars
    /\ UNCHANGED <<playerVars, utilVars>>
    /\ UNCHANGED chanVars

DoTryMergeAll ==
    /\ ~panicked
    /\ \E o \in ArgStacks :
          LET r == MaybeStack_try_merge_all(slot, o)
          IN /\ slot' = r.self
             /\ merged' = r.ok
             /\ other' = o
    /\ pre' = slot
    /\ op' = "try_merge_all"
    /\ UNCHANGED <<count, ret, panicked>>
    /\ UNCHANGED mgrVars
    /\ UNCHANGED viewVars
    /\ UNCHANGED <<playerVars, utilVars>>
    /\ UNCHANGED chanVars

DoTakeItems ==
    /\ ~panicked
    /\ \E c \in Counts :
          LET r == MaybeStack_take_items(slot, c)
          IN /\ slot' = r.self
             /\ ret' = r.ret
             /\ count' = c
    /\ pre' = slot
    /\ op' = "take_items"
    /\ UNCHANGED <<other, merged, panicked>>
    /\ UNCHANGED mgrVars
    /\ UNCHANGED viewVars
    /\ UNCHANGED <<playerVars, utilVars>>
    /\ UNCHANGED chanVars

DoTryTakeAll ==
    /\ ~panicked
    /\ \E c \in Counts :
          LET r == MaybeStack_try_take_all(slot, c)
          IN /\ slot' = r.self
             /\ ret' = r.ret
             /\ panicked' = r.panic
             /\ count' = c
    /\ pre' = slot
    /\ op' = "try_take_all"
    /\ UNCHANGED <<other, merged>>
    /\ UNCHANGED mgrVars
    /\ UNCHANGED viewVars
    /\ UNCHANGED <<playerVars, utilVars>>
    /\ UNCHANGED chanVars

NextItems == DoTryMerge \/ DoTryMergeAll \/ DoTakeItems \/ DoTryTakeAll

SpecItems == InitItems /\ [][NextItems]_vars

\* ------------------------------------------------------------------------
\* The InventoryManager with subscribers: threads mutate the containers of
\* a populated store while receivers subscribe, read and go away.
\* ------------------------------------------------------------------------
InitChan ==
    /\ MgrStart(1)
    /\ ChanStart
    /\ ViewStart(<<1, 1>>, << >>)
    /\ slot = None
    /\ pre = None
    /\ other = None
    /\ count = None
    /\ ret = None
    /\ merged = FALSE
    /\ panicked = FALSE
    /\ op = "new"
    /\ PlayersStart
    /\ UtilStart

NextChan ==
    \/ \E t \in Threads :
          \/ CallMutateOne(t)
          \/ CallMutateMany(t)
          \/ Acquire(t)
          \/ MutateOneLoad(t)
          \/ MutateOneRun(t)
          \/ MutateOneStore(t)
          \/ MutateManyLoad(t)
          \/ MutateManyRun(t)
          \/ MutateManyStore(t)
          \/ Return(t)
    \/ \E r \in Subscribers :
          \/ subscribe(r)
          \/ recv(r)
          \/ drop_receiver(r)

SpecChan == InitChan /\ [][NextChan]_vars

\* ------------------------------------------------------------------------
\* A Transient view over a populated store: a caller peeks, takes, puts,
\* clears and finally drops the view.
\* ------------------------------------------------------------------------
InitView ==
    /\ MgrStart(1)
    /\ ChanStart
    /\ \E d \in ViewDims, ic \in InitialContents : ViewStart(d, ic)
    /\ slot = None
    /\ pre = None
    /\ other = None
    /\ count = None
    /\ ret = None
    /\ merged = FALSE
    /\ panicked = FALSE
    /\ op = "new"
    /\ PlayersStart
    /\ UtilStart

NextView == ViewPeek \/ ViewTake \/ ViewPut \/ ViewClear \/ ViewDrop

SpecView == InitView /\ [][NextView]_vars

\* ------------------------------------------------------------------------
\* Specification of one view, Stored or Transient, beside threads that call
\* mutate_inventory_atomically directly
\* ------------------------------------------------------------------------
\* what slot 0 and slot 1 of the viewed 1x2 container hold at the start
StoredContents ==
    {<<None, None>>,
     <<Some([item_name |-> "a", quantity |-> 2, max_stack |-> 3,
             stackable |-> TRUE]), None>>,
     <<Some([item_name |-> "b", quantity |-> 1, max_stack |-> 0,
             stackable |-> FALSE]),
       Some([item_name |-> "a", quantity |-> 3, max_stack |-> 3,
             stackable |-> TRUE])>>}

\* the manager at rest over store d, whose keys a have been drawn
MgrAtRest(d, a) ==
    /\ db = d
    /\ lock = NoThread
    /\ notified = << >>
    /\ allocated = a
    /\ pc = [t \in Threads |-> "idle"]
    /\ call = [t \in Threads |-> NoCall]
    /\ invs = [t \in Threads |-> << >>]
    /\ idx = [t \in Threads |-> 1]
    /\ mres = [t \in Threads |-> "none"]
    /\ result = [t \in Threads |-> NoResult]
    /\ reentered = [t \in Threads |-> FALSE]
    /\ ncalls = 0
    /\ snapDb = [t \in Threads |-> [k \in Keys |-> None]]
    /\ snapNote = [t \in Threads |-> 0]
    /\ loaded = [t \in Threads |-> << >>]
    /\ ran = [t \in Threads |-> FALSE]
    /\ incrs = [k \in Keys |-> 0]
    /\ pureIncr = TRUE

\* the manager at rest with a 1x2 container of the given contents under
\* key 1 and no other key
MgrStartHolding(contents) ==
    MgrAtRest([k \in Keys |->
                  IF k = 1
                  THEN Some(Inventory_to_proto(
                          [Unwrap(Inventory_new(<<1, 2>>, k))
                              EXCEPT !.contents = contents]))
                  ELSE None],
              {1})

\* the threads that call mutate_inventory_atomically beside the view: the
\* mutex serialises the calls, one thread interleaves with the view's caller
DirectCallers == {1}

InitStored ==
    /\ \E contents \in StoredContents : MgrStartHolding(contents)
    /\ ChanStart
    /\ StoredStart(1)
    /\ slot = None
    /\ pre = None
    /\ other = None
    /\ count = None
    /\ ret = None
    /\ merged = FALSE
    /\ panicked = FALSE
    /\ op = "new"
    /\ PlayersStart
    /\ UtilStart

NextStored ==
    \/ ViewPeek \/ ViewTake \/ ViewPut \/ ViewClear \/ ViewDrop
    \/ \E t \in DirectCallers :
          \/ CallMutateOne(t)
          \/ Acquire(t)
          \/ MutateOneLoad(t)
          \/ MutateOneRun(t)
          \/ MutateOneStore(t)
          \/ Return(t)

SpecStored == InitStored /\ [][NextStored]_vars

\* ------------------------------------------------------------------------
\* Specification of one view of either backing: a Stored view of a 1x2
\* container, or a Transient one
\* ------------------------------------------------------------------------
InitAnyView ==
    /\ \E contents \in StoredContents : MgrStartHolding(contents)
    /\ ChanStart
    /\ \/ StoredStart(1)
       \/ \E d \in ViewDims : ViewStart(d, << >>)
    /\ slot = None
    /\ pre = None
    /\ other = None
    /\ count = None
    /\ ret = None
    /\ merged = FALSE
    /\ panicked = FALSE
    /\ op = "new"
    /\ PlayersStart
    /\ UtilStart

SpecAnyView == InitAnyView /\ [][NextView]_vars

\* ------------------------------------------------------------------------
\* Specification of the PlayerManager: clients that connect, move and
\* release their PlayerContext, the writeback loop task and one caller of
\* request_shutdown / await_shutdown
\* ------------------------------------------------------------------------
InitPlayers ==
    /\ MgrStart(0)
    /\ ChanStart
    /\ ViewStart(<<1, 1>>, << >>)
    /\ slot = None
    /\ pre = None
    /\ other = None
    /\ count = None
    /\ ret = None
    /\ merged = FALSE
    /\ panicked = FALSE
    /\ op = "new"
    /\ PlayersStart
    /\ UtilStart

NextPlayers ==
    \/ \E c \in Clients :
          \/ CallConnect(c)
          \/ Connect(c)
          \/ update_position(c)
          \/ drop_disconnect(c)
    \/ LoopCheck
    \/ LoopSelect
    \/ LoopFlushBegin
    \/ LoopFlushWrite
    \/ LoopFlushEnd

SpecPlayers == InitPlayers /\ [][NextPlayers]_vars

\* ------------------------------------------------------------------------
\* Specification of shutdown: a PlayerManager whose store holds the records
\* of both players from earlier sessions, the clients, the writeback loop
\* task and one caller of request_shutdown followed by await_shutdown
\* ------------------------------------------------------------------------
\* the main inventory key of a player's earlier session
EarlierKey(name) == IF name = "alice" THEN 1 ELSE 2

\* the Player a client left behind when it disconnected at the spawn point
EarlierPlayer(name) ==
    [name |-> name, main_inventory_key |-> EarlierKey(name),
     last_position |-> SpawnPosition]

InitShutdown ==
    /\ MgrAtRest([k \in Keys |->
                     IF k \in {EarlierKey(n) : n \in Names}
                     THEN Some(Inventory_to_proto(
                             Unwrap(Inventory_new(MainInventoryDims, k))))
                     ELSE None],
                 {EarlierKey(n) : n \in Names})
    /\ ChanStart
    /\ ViewStart(<<1, 1>>, << >>)
    /\ slot = None
    /\ pre = None
    /\ other = None
    /\ count = None
    /\ ret = None
    /\ merged = FALSE
    /\ panicked = FALSE
    /\ op = "new"
    /\ active = [n \in Names |-> None]
    /\ pstore = [n \in Names |->
                    Some(Player_to_server_proto(EarlierPlayer(n)))]
    /\ ctx = [c \in Clients |-> None]
    /\ cpc = [c \in Clients |-> "idle"]
    /\ carg = [c \in Clients |-> None]
    /\ cres = [c \in Clients |-> "none"]
    /\ alock = "none"
    /\ cancelled = FALSE
    /\ lpc = "check"
    /\ fleft = {}
    /\ writeback = TRUE
    /\ spc = "idle"
    /\ vacant = FALSE
    /\ lastw = [n \in Names |-> "client"]
    /\ owed = [n \in Names |-> FALSE]
    /\ UtilStart

\* the steps of the writeback loop task
LoopStep ==
    LoopCheck \/ LoopSelect \/ LoopFlushBegin \/ LoopFlushWrite
    \/ LoopFlushEnd

\* the steps of await_shutdown
AwaitStep ==
    AwaitJoin \/ AwaitFlushBegin \/ AwaitFlushWrite \/ AwaitFlushEnd

NextShutdown ==
    \/ \E c \in Clients :
          \/ CallConnect(c)
          \/ Connect(c)
          \/ update_position(c)
          \/ drop_disconnect(c)
    \/ LoopCheck
    \/ LoopSelect
    \/ LoopFlushBegin
    \/ LoopFlushWrite
    \/ LoopFlushEnd
    \/ request_shutdown
    \/ AwaitTake
    \/ AwaitJoin
    \/ AwaitFlushBegin
    \/ AwaitFlushWrite
    \/ AwaitFlushEnd

SpecShutdown == InitShutdown /\ [][NextShutdown]_vars

\* The tokio runtime polls a task that can make progress, and
\* parking_lot's mutex is handed to a waiter eventually: every step the loop
\* task or await_shutdown can take is taken.
SpecShutdownFair ==
    SpecShutdown /\ WF_vars(LoopStep) /\ WF_vars(AwaitStep)

\* ------------------------------------------------------------------------
\* KeySpace::make_key on two calls of any namespaces and raw ids
\* ------------------------------------------------------------------------
InitKeys ==
    /\ RestStart
    /\ \E na \in KeySpaces, nb \in KeySpaces, ra \in RawIds, rb \in RawIds :
          made = [a |-> PendingKey(na, ra), b |-> PendingKey(nb, rb)]
    /\ ProtoStart
    /\ InsertStart
    /\ IdsStart
    /\ FurnaceStart

NextKeys == DoMakeKey

SpecKeys == InitKeys /\ [][NextKeys]_vars

\* ------------------------------------------------------------------------
\* Round trips between stored records and Inventory values
\* ------------------------------------------------------------------------
InitProto ==
    /\ RestStart
    /\ \/ \E p \in InventoryProtos : rt = PendingTrip("proto", p)
       \/ \E i \in Inventories : rt = PendingTrip("inv", i)
    /\ KeysStart
    /\ InsertStart
    /\ IdsStart
    /\ FurnaceStart

NextProto == DoConvert \/ DoConvertBack

SpecProto == InitProto /\ [][NextProto]_vars

\* ------------------------------------------------------------------------
\* Inventory::try_insert, called again and again on one inventory
\* ------------------------------------------------------------------------
InitInsert ==
    /\ RestStart
    /\ \E c \in [1..InsertLen -> InsertSlotValues] : ins = FreshInsert(c)
    /\ KeysStart
    /\ ProtoStart
    /\ IdsStart
    /\ FurnaceStart

NextInsert == DoTryInsert

SpecInsert == InitInsert /\ [][NextInsert]_vars

\* ------------------------------------------------------------------------
\* Threads creating views at once
\* ------------------------------------------------------------------------
InitIds ==
    /\ RestStart
    /\ UtilStart

NextIds == \E t \in Threads : BeginView(t) \/ next_id(t) \/ EndView(t)

SpecIds == InitIds /\ [][NextIds]_vars

\* ------------------------------------------------------------------------
\* One furnace, its timer and a player at its popup
\* ------------------------------------------------------------------------
InitFurnace ==
    /\ RestStart
    /\ KeysStart
    /\ ProtoStart
    /\ InsertStart
    /\ IdsStart
    /\ furnace = NewFurnace

NextFurnace == TimerFires \/ PlayerPlaces \/ PlayerTakes

SpecFurnace == InitFurnace /\ [][NextFurnace]_vars

\* ------------------------------------------------------------------------
\* Properties of the InventoryManager (checked under Spec)
\* ------------------------------------------------------------------------
\* the call of thread t has computed its return value and not yet returned
Returning(t, o) == pc[t] = "done" /\ call[t].op = o

\* the keys named by the call of thread t
CallKeys(t) == {call[t].keys[i] : i \in 1..Len(call[t].keys)}

\* C1: when the mutator of mutate_many over [k1, k2] fails, neither
\* container is persisted: the stored value of k1 and of k2 is its pre-call
\* value.
C1_FailedMutatorPersistsNothing ==
    \A t \in Threads :
        (/\ Returning(t, "mutate_many")
         /\ result[t].kind = "mutator_err"
         /\ Len(call[t].keys) = 2
         /\ call[t].keys[1] # call[t].keys[2])
        => \A k \in CallKeys(t) : db[k] = snapDb[t][k]

\* thread t is between its lock() and the drop of the guard
InCritical(t) == pc[t] \in {"put", "load", "run", "store"}
                 \/ (pc[t] = "done" /\ result[t].kind # "err_dims")

\* positions of thread t's loaded inventories it has not yet stored and
\* whose key it has not itself stored earlier in this call
Unstored(t) ==
    LET from == IF pc[t] = "store" THEN idx[t] ELSE 1
        upto == IF pc[t] \in {"load", "run", "store"} THEN Len(invs[t]) ELSE 0
    IN {i \in from..upto :
           \A j \in 1..(from - 1) : invs[t][j].key # invs[t][i].key}

\* C2: the load, mutator and store steps of one call are never interleaved
\* with a load or store of another call: at most one thread is between
\* lock and unlock, what a call loaded is still what the store holds until
\* the call itself writes it, and concurrent mutate_one calls that each add
\* 1 to a slot leave it increased by exactly their number.
C2_LoadMutateStoreAtomic ==
    /\ \A t, u \in Threads : (InCritical(t) /\ InCritical(u)) => t = u
    /\ \A t \in Threads : \A i \in Unstored(t) :
          db[invs[t][i].key] = Some(loaded[t][i])
    /\ (pureIncr /\ \A t \in Threads : pc[t] \in {"idle", "lock"})
       => \A k \in Keys :
             IsSome(db[k]) => Unwrap(db[k]).contents[1].quantity = incrs[k]

\* two mutate_one calls are in flight at once: one holds its loaded and
\* incremented copy, not yet stored, while the other waits in lock()
C2_Witness ==
    \E t, u \in Threads :
        /\ t # u
        /\ call[t].op = "mutate_one" /\ call[u].op = "mutate_one"
        /\ pc[t] = "store" /\ pc[u] = "lock" /\ ~reentered[u]
        /\ pureIncr
        /\ db[call[t].keys[1]] = Some(loaded[t][1])

C4_UnknownKeyNoEffect ==
    \A t \in Threads :
        /\ ((Returning(t, "mutate_one") \/ Returning(t, "mutate_many"))
              /\ result[t].kind = "not_found")
           => /\ ~ran[t]
              /\ db = snapDb[t]
              /\ Len(notified) = snapNote[t]
        /\ (call[t].op \in {"mutate_one", "mutate_many"}
              /\ pc[t] \in {"run", "store", "done"}
              /\ \E k \in CallKeys(t) : IsNone(snapDb[t][k]))
           => /\ pc[t] = "done"
              /\ result[t].kind \in {"not_found", "err_corrupt"}
              /\ ~ran[t]
              /\ db = snapDb[t]
              /\ Len(notified) = snapNote[t]

\* mutate_many over a known and an unknown key is about to return its error
C4_Witness ==
    \E t \in Threads :
        /\ Returning(t, "mutate_many")
        /\ result[t].kind = "not_found"
        /\ \E k \in CallKeys(t) : IsSome(db[k])
        /\ \E k \in CallKeys(t) : IsNone(db[k])

\* ------------------------------------------------------------------------
\* Properties of the merge/split algebra (checked under SpecItems)
\* ------------------------------------------------------------------------
\* two stacks that ItemStack::try_merge is willing to merge
Compatible(a, b) ==
    a.max_stack > 0 /\ b.max_stack > 0 /\ a.item_name = b.item_name
\* units a stack can still take before reaching its limit
Room(s) == IF s.quantity < s.max_stack THEN s.max_stack - s.quantity ELSE 0
\* same stack up to its quantity
SameKind(a, b) ==
    /\ a.item_name = b.item_name
    /\ a.max_stack = b.max_stack
    /\ a.stackable = b.stackable

\* C5: try_merge of a stackable stack into an EMPTY slot respects the stack
\* limit: the slot ends at min(quantity, max_stack) and the remainder comes
\* back as a leftover of the same item type (300 into an empty slot with
\* limit 256 leaves 256 and returns 44).
C5_EmptySlotRespectsLimit ==
    (op = "try_merge" /\ IsNone(pre) /\ IsSome(other)
        /\ Unwrap(other).stackable /\ Unwrap(other).max_stack > 0)
    => /\ IsSome(slot)
       /\ Qty(slot) = Min(Unwrap(other).quantity, Unwrap(other).max_stack)
       /\ Qty(ret) = Unwrap(other).quantity - Qty(slot)
       /\ IsSome(ret) => Unwrap(ret).item_name = Unwrap(other).item_name

\* the case of C6: both sides hold a stack of the same item and both are
\* stackable
C6_Case ==
    /\ op = "try_merge" /\ IsSome(pre) /\ IsSome(other)
    /\ Compatible(Unwrap(pre), Unwrap(other))

C6_Conserves ==
    /\ IsSome(slot)
    /\ SameKind(Unwrap(slot), Unwrap(pre))
    /\ Qty(pre) + Qty(other) = Qty(slot) + Qty(ret)
    /\ IsSome(ret) => /\ SameKind(Unwrap(ret), Unwrap(other))
                      /\ Unwrap(ret).quantity > 0

\* C6 as stated: try_merge of two compatible stacks conserves quantity, the
\* leftover carries other's item type and limits, and the amount moved is
\* min(other.quantity, self.max_quantity - self.quantity).
C6_MovesMinOfPlainDifference ==
    C6_Case =>
        /\ C6_Conserves
        /\ Qty(slot) - Qty(pre) =
              Min(Qty(other), Unwrap(pre).max_stack - Qty(pre))

\* C6 amended: try_merge of two compatible stacks conserves quantity, the
\* leftover carries other's item type and limits, and the amount moved is
\* min(other.quantity, self.max_quantity - self.quantity) while self is
\* within its limit and 0 once self holds max_quantity or more.
C6_MergeConservesQuantity ==
    C6_Case =>
        /\ C6_Conserves
        /\ Qty(slot) - Qty(pre) =
              (IF Qty(pre) >= Unwrap(pre).max_stack THEN 0
               ELSE Min(Qty(other), Unwrap(pre).max_stack - Qty(pre)))

\* a partial merge: part of other moved, the rest came back
C6_Witness ==
    /\ C6_Case
    /\ Qty(slot) > Qty(pre)
    /\ IsSome(ret)

\* C7: try_merge_all is all-or-nothing: on true the slot grew by exactly
\* other's quantity, on false the slot is unchanged; two stacks merge
\* exactly when they are compatible and the whole of other fits.
C7_MergeAllIsAllOrNothing ==
    op = "try_merge_all" =>
        /\ merged => /\ Qty(slot) = Qty(pre) + Qty(other)
                     /\ IsSome(pre) =>
                           /\ IsSome(slot)
                           /\ SameKind(Unwrap(slot), Unwrap(pre))
                     /\ (IsNone(pre) => slot = other)
        /\ ~merged => slot = pre
        /\ (IsSome(pre) /\ IsSome(other)) =>
              (merged <=> /\ Compatible(Unwrap(pre), Unwrap(other))
                          /\ Qty(other) <= Room(Unwrap(pre)))

\* other did not fit into a compatible stack and nothing was moved
C7_Witness ==
    /\ op = "try_merge_all" /\ IsSome(pre) /\ IsSome(other)
    /\ Compatible(Unwrap(pre), Unwrap(other))
    /\ Room(Unwrap(pre)) > 0
    /\ Qty(other) > Room(Unwrap(pre))
    /\ ~merged /\ slot = pre

\* quantity asked of take_items: the count, or everything when none given
Requested == IF IsSome(count) THEN Unwrap(count) ELSE Qty(pre)

\* C8: take_items returns at most min(count, quantity before), slot after
\* plus returned equals slot before, and the slot is empty exactly when
\* nothing remains.
C8_TakeItemsBounds ==
    op = "take_items" =>
        /\ Qty(ret) <= Min(Requested, Qty(pre))
        /\ Qty(slot) + Qty(ret) = Qty(pre)
        /\ IsNone(slot) <=> (Qty(pre) - Qty(ret) = 0)
        /\ IsSome(ret) => SameKind(Unwrap(ret), Unwrap(pre))
        /\ IsSome(slot) => SameKind(Unwrap(slot), Unwrap(pre))

\* a split: fewer units asked for than the slot held
C8_Witness ==
    /\ op = "take_items" /\ IsSome(count) /\ IsSome(pre)
    /\ Unwrap(count) > 0 /\ Unwrap(count) < Qty(pre)
    /\ Qty(ret) = Unwrap(count)
    /\ Qty(slot) = Qty(pre) - Unwrap(count)

\* C9: a stack with max_stack = 0 is rigid whatever its stackable flag:
\* try_merge / try_merge_all with it on either side and take_items with an
\* explicit count change nothing; take_items without a count removes it
\* whole.
C9_NonStackableRigid ==
    /\ (op = "try_merge" /\ IsSome(pre) /\ IsSome(other)
          /\ (Unwrap(pre).max_stack = 0 \/ Unwrap(other).max_stack = 0))
       => (slot = pre /\ ret = other)
    /\ (op = "try_merge_all" /\ IsSome(pre) /\ IsSome(other)
          /\ (Unwrap(pre).max_stack = 0 \/ Unwrap(other).max_stack = 0))
       => (slot = pre /\ ~merged)
    /\ (op = "take_items" /\ IsSome(pre) /\ Unwrap(pre).max_stack = 0
          /\ (IsSome(count) => Unwrap(count) >= 1))
       => IF IsSome(count) THEN slot = pre /\ ret = None
                           ELSE slot = None /\ ret = pre

\* C10: try_take_all returns exactly the requested quantity from a
\* stackable slot that holds at least that much (the whole stack when no
\* count is given); otherwise it returns None as an ordinary value and the
\* slot is untouched.
C10_TryTakeAllOrNothing ==
    op = "try_take_all" =>
        /\ ~panicked
        /\ IF IsNone(count) THEN slot = None /\ ret = pre
           ELSE IF IsSome(pre) /\ Unwrap(pre).stackable
                   /\ Qty(pre) >= Unwrap(count)
           THEN /\ IsSome(ret)
                /\ Qty(ret) = Unwrap(count)
                /\ Qty(slot) = Qty(pre) - Unwrap(count)
           ELSE ret = None /\ slot = pre

\* C11: no zero-quantity stack is ever materialized: from a slot whose
\* stack has quantity >= 1, after any sequence of try_merge, try_merge_all,
\* take_items(count) and try_take_all(count), with any count (0 included),
\* the stack left in the slot and the stack returned both have quantity
\* >= 1.
C11_NoZeroQuantityStack ==
    /\ IsSome(slot) => Unwrap(slot).quantity >= 1
    /\ IsSome(ret) => Unwrap(ret).quantity >= 1

\* ------------------------------------------------------------------------
\* Further properties of the InventoryManager (checked under Spec)
\* ------------------------------------------------------------------------
\* C12: container shape: after make_inventory and after every step of any
\* mutate_one / mutate_many call, with any mutator, each persisted record
\* has both dimensions > 0, exactly height*width slots, and the dimensions
\* it had before the step (so those of its creation).
C12_ShapePreserved ==
    [][\A k \in Keys :
          IsSome(db'[k]) =>
             LET p == Unwrap(db'[k])
             IN /\ p.height > 0
                /\ p.width > 0
                /\ Len(p.contents) = p.height * p.width
                /\ IsSome(db[k]) =>
                      /\ p.height = Unwrap(db[k]).height
                      /\ p.width = Unwrap(db[k]).width]_vars

\* dimensions that make_inventory must reject
BadDims(d) == d[1] = 0 \/ d[2] = 0 \/ d[1] * d[2] >= DimLimit

\* the record of an all-empty container of dimensions d
EmptyRecord(d) ==
    [height |-> d[1], width |-> d[2],
     contents |-> [i \in 1..(d[1] * d[2]) |-> EmptyStackProto]]

\* C13: make_inventory(height, width) fails, writing nothing, when either
\* dimension is 0 or height*width overflows the dimension type; otherwise
\* it persists exactly height*width empty slots under a key that was not
\* in the store, touches no other key, and returns that key, and a get of
\* that key then decodes to the all-empty container.
C13_MakeInventoryContract ==
    [][\A t \in Threads :
          (call'[t].op = "make_inventory" /\ pc[t] # "done"
              /\ pc'[t] = "done")
          => LET d == call'[t].dims
             IN IF BadDims(d)
                THEN /\ result'[t].kind = "err_dims"
                     /\ pc[t] = "idle"
                     /\ db' = db
                     /\ notified' = notified
                ELSE /\ result'[t].kind = "ok"
                     /\ LET key == result'[t].val[1]
                        IN /\ IsNone(db[key])
                           /\ db' = [db EXCEPT ![key] = Some(EmptyRecord(d))]
                           /\ Inventory_from_proto(Unwrap(db'[key]), key) =
                                 Some([key |-> key, dimensions |-> d,
                                       contents |->
                                          [i \in 1..(d[1] * d[2]) |-> None]])
       ]_vars

\* make_inventory(1, 2) has stored its two empty slots and is returning the
\* new key, while another key already exists in the store
C13_Witness ==
    \E t \in Threads :
        /\ Returning(t, "make_inventory")
        /\ result[t].kind = "ok"
        /\ call[t].dims = <<1, 2>>
        /\ db[result[t].val[1]] = Some(EmptyRecord(<<1, 2>>))
        /\ \E k \in Keys : k # result[t].val[1] /\ IsSome(db[k])

\* a stored record whose slot count is not height*width, or is 0
Malformed(p) ==
    \/ p.height * p.width >= DimLimit
    \/ Len(p.contents) # p.height * p.width
    \/ p.height * p.width = 0

\* C14: get(key) returns absent for a key with no stored record, returns
\* the value most recently written for a known key (after only "incr"
\* mutations: slot 0 holds as many units as mutations completed), returns
\* an error, never a container, when the stored record's slot count
\* differs from height*width, and in every case leaves the store and the
\* notification stream as they were when it took the lock.
C14_GetContract ==
    \A t \in Threads :
        Returning(t, "get") =>
           LET key == call[t].keys[1]
           IN /\ db = snapDb[t]
              /\ Len(notified) = snapNote[t]
              /\ IF IsNone(db[key])
                 THEN result[t] = [kind |-> "ok", val |-> None]
                 ELSE IF Malformed(Unwrap(db[key]))
                 THEN result[t] = [kind |-> "err_corrupt", val |-> << >>]
                 ELSE /\ result[t].kind = "ok"
                      /\ IsSome(result[t].val)
                      /\ Unwrap(result[t].val).key = key
                      /\ Inventory_to_proto(Unwrap(result[t].val)) =
                            Unwrap(db[key])
                      /\ pureIncr =>
                            Qty(Unwrap(result[t].val).contents[1]) =
                               incrs[key]

\* get is returning an error for a record whose dimensions a mutator
\* changed
C14_Witness ==
    \E t \in Threads :
        /\ Returning(t, "get")
        /\ result[t].kind = "err_corrupt"
        /\ IsSome(db[call[t].keys[1]])
        /\ Len(Unwrap(db[call[t].keys[1]]).contents) = 1
        /\ Unwrap(db[call[t].keys[1]]).height = 2

\* the call of thread t ran its mutator and went through its store phase
Committed(t) ==
    /\ Returning(t, "mutate_one") \/ Returning(t, "mutate_many")
    /\ result[t].kind \in {"ok", "mutator_err"}
    /\ Len(invs[t]) > 0

\* C15: a mutate_one that reaches the store publishes exactly one
\* notification, for its key, and mutate_many exactly one per container it
\* re-persists, in the order of the writes; each notification follows the
\* write of that container's new value, so that a get issued on receipt
\* (it returns once the call has released the lock) does not observe the
\* pre-call value when the write that caused the notification changed it.
C15_NotifyAfterWrite ==
    \A t \in Threads :
        Committed(t) =>
           /\ Len(notified) = snapNote[t] + Len(invs[t])
           /\ \A i \in 1..Len(invs[t]) :
                 LET k == invs[t][i].key
                 IN /\ notified[snapNote[t] + i] = k
                    /\ db[k] = snapDb[t][k]
                          => Some(Inventory_to_proto(invs[t][i])) =
                                snapDb[t][k]

\* ------------------------------------------------------------------------
\* Properties of the change notifications (checked under SpecChan)
\* ------------------------------------------------------------------------
\* the last n values of a sequence
LastN(s, n) == SubSeq(s, Len(s) - n + 1, Len(s))

\* the copy of key k that the store loop of thread t writes last
LastCopy(t, k) ==
    invs[t][CHOOSE i \in 1..Len(invs[t]) :
               /\ invs[t][i].key = k
               /\ \A j \in (i + 1)..Len(invs[t]) : invs[t][j].key # k]

\* C16: publishing never blocks or fails a mutation: with no subscriber
\* or with subscribers that do not read, a call that has reached its store
\* phase can always take its next store step, and it returns the mutator's
\* result with its containers persisted. A subscriber that fell more than
\* the channel capacity behind loses only the oldest notifications: every
\* position it passed was delivered or reported as missed, and once it has
\* caught up the most recent values it received are the most recent values
\* sent.
C16_PublishNeverBlocks ==
    /\ \A t \in Threads :
          pc[t] = "store" =>
             ENABLED (MutateOneStore(t) \/ MutateManyStore(t))
    /\ \A t \in Threads :
          Committed(t) =>
             /\ result[t].kind = mres[t]
             /\ \A i \in 1..Len(invs[t]) :
                   db[invs[t][i].key] =
                      Some(Inventory_to_proto(LastCopy(t, invs[t][i].key)))
    /\ \A r \in receivers :
          /\ Len(seen[r]) + lagged[r] = cursor[r] - since[r]
          /\ cursor[r] = Len(chan) =>
                LET m == Min(BROADCAST_CHANNEL_SIZE, Len(chan) - since[r])
                IN /\ Len(seen[r]) >= m
                   /\ LastN(seen[r], m) = LastN(chan, m)

\* a subscriber fell behind by more than the capacity, was told so, and
\* has since received the retained values up to the newest
C16_Witness ==
    \E r \in receivers :
        /\ lagged[r] > 0
        /\ cursor[r] = Len(chan)
        /\ Len(seen[r]) = BROADCAST_CHANNEL_SIZE
        /\ Len(chan) - since[r] > BROADCAST_CHANNEL_SIZE

\* ------------------------------------------------------------------------
\* Properties of Transient views (checked under SpecView)
\* ------------------------------------------------------------------------
RECURSIVE SeqSum(_)
SeqSum(s) == IF Len(s) = 0 THEN 0 ELSE Head(s) + SeqSum(Tail(s))

\* quantity held by an optional BorrowedStack
BQty(o) == IF IsSome(o) THEN Unwrap(o).borrowed_stack.quantity ELSE 0

\* units of item n that the view contents hold with an origin in container k
HeldQty(contents, k, n) ==
    SeqSum([i \in 1..Len(contents) |->
               IF /\ IsSome(contents[i])
                  /\ IsSome(Unwrap(contents[i]).borrows_from)
                  /\ Unwrap(Unwrap(contents[i]).borrows_from)[1] = k
                  /\ Unwrap(contents[i]).borrowed_stack.item_name = n
               THEN BQty(contents[i]) ELSE 0])

\* units of item n in the stored record of container k of database d
StoredQty(d, k, n) ==
    IF IsNone(d[k]) THEN 0
    ELSE SeqSum([i \in 1..Len(Unwrap(d[k]).contents) |->
                    IF Unwrap(d[k]).contents[i].item_name = n
                    THEN Unwrap(d[k]).contents[i].quantity ELSE 0])

\* C17: when a Transient view is destroyed (clear() or drop), every stack
\* it held with an origin (k, slot) ends up in container k: for each item
\* type, container k holds afterwards what it held before plus what the
\* view held from k, and the view holds nothing from k any more.
C17_DestroyReturnsToOrigin ==
    vcall.op \in {"clear", "drop"} =>
       \A k \in Keys, n \in ItemNames :
          /\ StoredQty(db, k, n) = StoredQty(vdb, k, n) + HeldQty(vpre, k, n)
          /\ HeldQty(view.contents, k, n) = 0

\* C18: Cleared is terminal: once clear() has run on a Transient view, the
\* view holds no stack, peek returns only empty slots and take hands out
\* nothing, whatever is called on the view later.
C18_ClearedIsTerminal ==
    (vcleared /\ vlive) =>
       /\ \A i \in 1..Len(view.contents) : IsNone(view.contents[i])
       /\ (vcall.op = "peek") =>
             \A i \in 1..Len(vret.val) : IsNone(vret.val[i])
       /\ (vcall.op = "take") => IsNone(vret.val)

\* the last call was an accepted put / take on slot vcall.at
Accepted(o) == vcall.op = o /\ vret.kind = "ok"

\* C19: put(slot, stack) on a Transient view whose slot holds a compatible
\* stack merges into the slot and conserves quantity: the slot's quantity
\* after the call (what a following peek shows) plus the leftover's
\* quantity equals the slot's quantity before plus the quantity put, and a
\* leftover carries the origin of the stack that was put.
C19_TransientPutConserves ==
    (/\ Accepted("put")
     /\ IsSome(vpre[vcall.at + 1])
     /\ Compatible(Unwrap(vpre[vcall.at + 1]).borrowed_stack,
                   Unwrap(vcall.stack).borrowed_stack))
    => /\ Qty(Transient_peek(view.contents)[vcall.at + 1]) + BQty(vret.val)
             = BQty(vpre[vcall.at + 1]) + BQty(vcall.stack)
       /\ IsSome(vret.val) =>
             Unwrap(vret.val).borrows_from =
                Unwrap(vcall.stack).borrows_from

\* C20: take(slot, count) on a Transient view applies take_items to the
\* in-memory slot: returned plus left equals what the slot held, the slot
\* is empty exactly when nothing remains, a stack that is not stackable is
\* left in place with nothing returned when a count is given, the returned
\* stack and the stack left behind carry the origin the slot's stack
\* carried (no origin included), and no other slot changes.
C20_TransientTake ==
    Accepted("take") =>
       LET p == vpre[vcall.at + 1]
           a == view.contents[vcall.at + 1]
           r == vret.val
       IN /\ BQty(r) + BQty(a) = BQty(p)
          /\ IsNone(a) <=> (BQty(p) - BQty(r) = 0)
          /\ (IsSome(p) /\ ~Unwrap(p).borrowed_stack.stackable
                 /\ IsSome(vcall.count))
             => (a = p /\ IsNone(r))
          /\ IsSome(r) =>
                /\ IsSome(p)
                /\ Unwrap(r).borrows_from = Unwrap(p).borrows_from
                /\ SameKind(Unwrap(r).borrowed_stack,
                            Unwrap(p).borrowed_stack)
          /\ IsSome(a) => Unwrap(a).borrows_from = Unwrap(p).borrows_from
          /\ \A i \in 1..Len(vpre) :
                i # vcall.at + 1 => view.contents[i] = vpre[i]

\* part of a stack borrowed from slot 0 of container 1 was taken: the
\* taken part and the part left behind both carry that origin
C20_Witness ==
    /\ Accepted("take")
    /\ IsSome(vcall.count) /\ Unwrap(vcall.count) >= 1
    /\ IsSome(vret.val) /\ IsSome(view.contents[vcall.at + 1])
    /\ BQty(vret.val) = Unwrap(vcall.count)
    /\ Unwrap(vret.val).borrows_from = Some(<<1, 0>>)
    /\ Unwrap(view.contents[vcall.at + 1]).borrows_from = Some(<<1, 0>>)

\* the slots of the container stored under key in store d
SlotsOf(d, key) == Unwrap(Inventory_from_proto(Unwrap(d[key]), key)).contents

\* C21: a take(slot, count) that succeeds on a Stored view of container k
\* changes, in that one step, nothing but the given slot of the persisted
\* container k and sends exactly one notification, for k. A returned stack
\* carries the origin (k, slot), is of the item that was in the slot and its
\* quantity is the amount by which the persisted slot decreased; when
\* nothing is returned the slots are as before, and an empty slot returns
\* nothing.
C21_StoredTake ==
    [][(ViewTake /\ view.backing = "Stored" /\ vret'.kind = "ok")
       => LET k == view.key
              at == vcall'.at
              before == SlotsOf(db, k)
              after == SlotsOf(db', k)
          IN /\ at < ViewSlots(view)
             /\ Len(after) = Len(before)
             /\ \A i \in 1..Len(before) : i # at + 1 => after[i] = before[i]
             /\ \A j \in Keys \ {k} : db'[j] = db[j]
             /\ notified' = Append(notified, k)
             /\ IsNone(before[at + 1]) => IsNone(vret'.val)
             /\ IF IsSome(vret'.val)
                THEN LET b == Unwrap(vret'.val)
                     IN /\ b.borrows_from = Some(<<k, at>>)
                        /\ b.borrowed_stack.item_name =
                              Unwrap(before[at + 1]).item_name
                        /\ b.borrowed_stack.quantity =
                              Qty(before[at + 1]) - Qty(after[at + 1])
                ELSE after = before
      ]_vars

\* take(1, Some(2)) on the Stored view of container 1 has returned two of
\* the three units of slot 1 with origin (1, 1); one unit is left in the
\* persisted slot and the one notification sent is for key 1
C21_Witness ==
    /\ view.backing = "Stored"
    /\ vcall.op = "take" /\ vcall.at = 1 /\ vcall.count = Some(2)
    /\ vret.kind = "ok"
    /\ IsSome(vret.val)
    /\ Unwrap(vret.val).borrows_from = Some(<<1, 1>>)
    /\ Unwrap(vret.val).borrowed_stack.quantity = 2
    /\ Qty(SlotsOf(vdb, 1)[2]) = 3
    /\ Qty(SlotsOf(db, 1)[2]) = 1
    /\ notified = <<1>>

\* C23: peek on a Stored view answers with what get(key) answers on the
\* store of that moment, whoever wrote it last (this view's take / put or a
\* direct mutate_inventory_atomically): the decoded slots of the persisted
\* record, an error when the record is absent or does not decode. The step
\* changes no container and sends no notification.
C23_StoredPeekCurrent ==
    [][(ViewPeek /\ view.backing = "Stored")
       => LET k == view.key
          IN /\ db' = db
             /\ notified' = notified
             /\ chan' = chan
             /\ view' = view
             /\ IF IsNone(db[k])
                   \/ IsNone(Inventory_from_proto(Unwrap(db[k]), k))
                THEN vret'.kind # "ok"
                ELSE /\ vret'.kind = "ok"
                     /\ vret'.val = SlotsOf(db, k)
      ]_vars

\* the view has put a unit of item "b" into slot 1, a thread has added a
\* unit to slot 0 with a direct mutate_inventory_atomically, and a peek
\* issued after both has returned the two slots as they are stored
C23_Witness ==
    /\ view.backing = "Stored"
    /\ vcall.op = "peek"
    /\ vret.kind = "ok"
    /\ incrs[1] = 1
    /\ ncalls = 2
    /\ \A t \in Threads : pc[t] = "idle"
    /\ IsSome(SlotsOf(db, 1)[1])
    /\ IsSome(SlotsOf(db, 1)[2])
    /\ Unwrap(SlotsOf(db, 1)[2]).item_name = "b"
    /\ vret.val = SlotsOf(db, 1)
    /\ Len(notified) = 2

\* C22: a take or put whose slot is not below rows*cols of the view returns
\* an error and leaves the view, every persisted container and the
\* notification stream as they were, for a Stored and for a Transient view
\* alike. A live Stored view's backing record decodes to a container that
\* has a slot at every index below the view's rows*cols, and no take or put
\* ends in the unwrap of a missing slot.
C22_SlotBounds ==
    /\ []((vlive /\ view.backing = "Stored")
            => /\ IsSome(db[view.key])
               /\ IsSome(Inventory_from_proto(Unwrap(db[view.key]),
                                              view.key))
               /\ \A at \in 0..(ViewSlots(view) - 1) :
                     at + 1 \in DOMAIN SlotsOf(db, view.key)
               /\ vret.kind # "panic")
    /\ [][((ViewTake \/ ViewPut) /\ ~(vcall'.at < ViewSlots(view)))
          => /\ vret'.kind = "err"
             /\ view' = view
             /\ db' = db
             /\ notified' = notified
             /\ chan' = chan
         ]_vars

\* put(2, stack) on the Stored view of the 1x2 container, whose slot 0 the
\* view has filled before, has failed: the store is as it was before the
\* call and still only the one notification of the first put was sent
C22_Witness ==
    /\ view.backing = "Stored"
    /\ ViewSlots(view) = 2
    /\ vcall.op = "put" /\ vcall.at = 2
    /\ vret.kind = "err"
    /\ db = vdb
    /\ Len(notified) = 1
    /\ ncalls = 1

\* C27: once the token is cancelled the writeback loop task ends, with Ok
\* or with the Err of a failed flush, wherever the loop was when
\* request_shutdown was called; and an await_shutdown that has taken the
\* handle returns.
C27_ShutdownTerminates ==
    /\ cancelled ~> lpc \in {"ok", "err"}
    /\ (spc = "join") ~> spc \in {"returned_ok", "returned_err"}

\* await_shutdown has returned Ok after the loop task ended with Ok, with
\* both players connected and written by the final flush
C27_Witness ==
    /\ cancelled
    /\ lpc = "ok"
    /\ spc = "returned_ok"
    /\ ActiveNames = Names
    /\ \A n \in Names : lastw[n] = "final"

\* the step in which the connect of client c runs from the lock to its
\* return
ConnectReturns(c) == cpc[c] = "lock" /\ cpc'[c] = "idle"

C25_NewPlayerPersisted ==
    [][\A c \in Clients :
         (ConnectReturns(c) /\ IsNone(active[Unwrap(carg[c])])
             /\ IsNone(pstore[Unwrap(carg[c])]))
         => LET name == Unwrap(carg[c])
            IN IF cres'[c] = "ok"
               THEN /\ IsSome(pstore'[name])
                    /\ Unwrap(pstore'[name]).name = name
                    /\ IsSome(Unwrap(pstore'[name]).last_position)
                    /\ LET key == InventoryKey_parse_bytes(
                                      Unwrap(pstore'[name]).main_inventory)
                       IN /\ IsSome(key)
                          /\ IsNone(db[Unwrap(key)])
                          /\ IsSome(db'[Unwrap(key)])
                          /\ Inventory_from_proto(Unwrap(db'[Unwrap(key)]),
                                                  Unwrap(key)) =
                                Some([key |-> Unwrap(key),
                                      dimensions |-> <<4, 8>>,
                                      contents |-> [i \in 1..32 |-> None]])
                          /\ IsSome(active'[name])
                          /\ Unwrap(active'[name]).main_inventory_key =
                                Unwrap(key)
                          /\ Unwrap(active'[name]).name = name
                    /\ ctx'[c] = Some(name)
                    /\ \A n \in Names \ {name} :
                          active'[n] = active[n] /\ pstore'[n] = pstore[n]
               ELSE /\ cres'[c] = "err"
                    /\ active' = active
                    /\ pstore' = pstore
                    /\ ctx' = ctx
      ]_vars

\* client 1 has connected as the new player bob after a connect of alice
\* failed in write_back: bob's record names inventory 2, alice has the
\* orphaned inventory 1 and no record
C25_Witness ==
    /\ ctx[1] = Some("bob")
    /\ cres[1] = "ok"
    /\ IsSome(pstore["bob"])
    /\ InventoryKey_parse_bytes(Unwrap(pstore["bob"]).main_inventory)
          = Some(2)
    /\ IsSome(db[2])
    /\ IsSome(db[1])
    /\ IsNone(pstore["alice"])
    /\ ActiveNames = {"bob"}

\* the step in which client c releases its PlayerContext
Releases(c) == IsSome(ctx[c]) /\ IsNone(ctx'[c])

\* C26: the release of the PlayerContext of name removes name from
\* active_players in the same step, whether or not the write succeeded; the
\* stored record is afterwards either the player's state in memory at the
\* release or, when the write failed, the record as it was; no other
\* player is touched. A name is in the table only while a context of it is
\* held, so a connect(name) is refused as already connected only while
\* some client holds a context of name, never after the release.
C26_ReleaseDisconnects ==
    /\ [][\A c \in Clients :
            Releases(c)
            => LET name == Unwrap(ctx[c])
               IN /\ IsSome(active[name])
                  /\ IsNone(active'[name])
                  /\ \/ pstore'[name] =
                           Some(Player_to_server_proto(Unwrap(active[name])))
                     \/ pstore'[name] = pstore[name]
                  /\ \A n \in Names \ {name} :
                        active'[n] = active[n] /\ pstore'[n] = pstore[n]
         ]_vars
    /\ [](\A n \in Names :
             IsSome(active[n]) => \E c \in Clients : ctx[c] = Some(n))
    /\ [][\A c \in Clients :
            (ConnectReturns(c) /\ cres'[c] = "already")
            => \E d \in Clients : ctx[d] = carg[c]
         ]_vars

\* alice, created by client 1, moved and released, has been connected again
\* by client 2 from the record the release wrote
C26_Witness ==
    /\ IsNone(ctx[1])
    /\ ctx[2] = Some("alice")
    /\ cres[2] = "ok"
    /\ Unwrap(active["alice"]).last_position = <<6, 10, 5>>
    /\ Unwrap(pstore["alice"]).last_position = Some(<<6, 10, 5>>)
    /\ allocated = {1}

\* C30: a write_back that fails during a periodic flush does not end the
\* writeback loop: as long as no shutdown is requested the loop task has
\* not terminated.
C30_FailedWritebackKeepsLoop ==
    ~cancelled => lpc \notin {"ok", "err"}

C29_ActiveAtShutdownWritten ==
    spc = "returned_ok" => \A n \in Names : ~owed[n]

\* C31: the final flush is mandatory: when await_shutdown, called after
\* request_shutdown, has seen the loop task end, it goes on to its flush of
\* the active players, also when the loop task ended with an error.
C31_FinalFlushMandatory ==
    [][(spc = "join" /\ spc' # "join") => spc' = "flush"]_vars

\* C38: mutate_many discards no mutation: when the call has gone through
\* its store phase, every loaded in-memory container, as the mutator left
\* it, is the persisted value of its key, also when the list names one
\* container more than once.
C38_NoMutationDiscarded ==
    \A t \in Threads :
        (Committed(t) /\ call[t].op = "mutate_many") =>
           \A i \in 1..Len(invs[t]) :
              db[invs[t][i].key] = Some(Inventory_to_proto(invs[t][i]))

\* Arc::strong_count of the player of name: the reference held by
\* active_players and one for every PlayerContext of that name
Arc_strong_count(name) ==
    (IF IsSome(active[name]) THEN 1 ELSE 0)
       + Cardinality({c \in Clients : ctx[c] = Some(name)})

\* C36: after any interleaving of connects and releases the active table
\* holds exactly the names with a live PlayerContext, and no name has two
\* live contexts; so every release finds its entry present with exactly
\* two references, and the branch for a player that is not present is
\* never taken.
C36_ActiveTableExact ==
    /\ [](\A n \in Names :
             IsSome(active[n]) <=> \E c \in Clients : ctx[c] = Some(n))
    /\ [](\A n \in Names :
             Cardinality({c \in Clients : ctx[c] = Some(n)}) <= 1)
    /\ [][\A c \in Clients :
            Releases(c)
            => /\ IsSome(active[Unwrap(ctx[c])])
               /\ Arc_strong_count(Unwrap(ctx[c])) = 2
         ]_vars
    /\ [](~vacant)

\* both clients have connected and one of them has released its context
\* after a move, while the other still holds its own
C36_Witness ==
    \E n \in Names, m \in Names :
       /\ n # m
       /\ IsNone(active[n])
       /\ IsSome(pstore[n])
       /\ Unwrap(pstore[n]).last_position # Some(SpawnPosition)
       /\ IsSome(active[m])
       /\ Arc_strong_count(m) = 2
       /\ Arc_strong_count(n) = 0

\* C35: a reconnect sees the state of the disconnect: the release of the
\* context of name stores the player's state at the release; while name is
\* not in the table its record is not written again, by no flush; and the
\* connect(name) that follows builds its player from that record.
C35_ReconnectSeesDisconnect ==
    /\ [][\A c \in Clients :
            Releases(c)
            => pstore'[Unwrap(ctx[c])] =
                  Some(Player_to_server_proto(Unwrap(active[Unwrap(ctx[c])])))
         ]_vars
    /\ [][\A n \in Names :
            (IsNone(active[n]) /\ IsSome(pstore[n])) => pstore'[n] = pstore[n]
         ]_vars
    /\ [][\A c \in Clients :
            (ConnectReturns(c) /\ cres'[c] = "ok"
                /\ IsSome(pstore[Unwrap(carg[c])]))
            => active'[Unwrap(carg[c])] =
                  Player_from_server_proto(db, Unwrap(pstore[Unwrap(carg[c])]))
         ]_vars

\* C37: cancellation never preempts a flush and bounds the remaining work:
\* request_shutdown leaves a flush in progress as it is; a flush of the
\* loop that is in progress under a requested shutdown ends only when the
\* write of every player of the table has been made or tried (at most the
\* player of the last write is still on its list); and after the request
\* the loop starts at most one further flush: from a flush it goes to its
\* condition or ends, from its condition it ends, and it stays ended.
C37_CancelNeverPreempts ==
    /\ [][(~cancelled /\ cancelled') =>
             /\ lpc' = lpc /\ fleft' = fleft /\ alock' = alock
             /\ pstore' = pstore /\ active' = active
         ]_vars
    /\ [][(cancelled /\ lpc = "flushing" /\ lpc' # "flushing") =>
             Cardinality(fleft) <= 1
         ]_vars
    /\ [][cancelled =>
             /\ lpc = "flushing" => lpc' \in {"flushing", "check", "err"}
             /\ lpc = "check" => lpc' \in {"check", "ok"}
             /\ lpc \in {"ok", "err"} => lpc' = lpc
         ]_vars

\* C32: make_key(ns, raw) is the one-byte tag of ns followed by raw; the six
\* tags are pairwise distinct; keys of two different namespaces differ
\* whatever the raw ids, empty ones included; within one namespace different
\* raw ids give different keys; so the key of an inventory is never the key
\* of a player record.
C32_NamespacesSeparate ==
    /\ \A x \in KeySpaces, y \in KeySpaces :
          x # y => KeySpace_identifier(x) # KeySpace_identifier(y)
    /\ \A w \in DOMAIN made :
          IsSome(made[w].key) =>
             LET k == Unwrap(made[w].key)
             IN /\ Len(k) = Len(made[w].raw) + 1
                /\ k[1] = KeySpace_identifier(made[w].ns)
                /\ SubSeq(k, 2, Len(k)) = made[w].raw
    /\ (DOMAIN made # {} /\ IsSome(made.a.key) /\ IsSome(made.b.key)) =>
          /\ made.a.ns # made.b.ns => made.a.key # made.b.key
          /\ (made.a.ns = made.b.ns /\ made.a.raw # made.b.raw)
                => made.a.key # made.b.key
          /\ (made.a.ns = "Inventory" /\ made.b.ns = "Player")
                => made.a.key # made.b.key

\* both keys are made: an inventory key whose raw id starts with the tag of
\* the Player key space, and the player key of the rest of that raw id
C32_Witness ==
    /\ DOMAIN made # {}
    /\ IsSome(made.a.key)
    /\ IsSome(made.b.key)
    /\ made.a.ns = "Inventory"
    /\ made.b.ns = "Player"
    /\ made.a.raw = <<80, 0>>
    /\ made.b.raw = <<0>>

\* C33: the round trip of a container record: for every record with
\* height * width == len(contents) > 0, from_proto succeeds and to_proto of
\* its result is the record again, also when a slot has an empty item_name
\* with a quantity or limits, or a non-empty item_name with quantity 0; and
\* for every Inventory, from_proto of its to_proto succeeds with the same
\* dimensions and slots.
C33_RecordRoundTrip ==
    (DOMAIN rt # {} /\ rt.stage > 0) =>
       /\ IsSome(rt.mid)
       /\ rt.stage = 2 =>
             /\ IsSome(rt.out)
             /\ rt.from = "proto" => Unwrap(rt.out) = rt.input
             /\ rt.from = "inv" =>
                   /\ Unwrap(rt.out).dimensions = rt.input.dimensions
                   /\ Unwrap(rt.out).contents = rt.input.contents

\* units of item n held by the slots of contents
ItemTotal(contents, n) ==
    SeqSum([i \in 1..Len(contents) |->
               IF IsSome(contents[i]) /\ Unwrap(contents[i]).item_name = n
               THEN Unwrap(contents[i]).quantity ELSE 0])

\* C39: try_insert conserves items and fills in order. The total of the
\* inserted item type after the call plus the leftover is the total before
\* plus the inserted quantity, and no other type's total changes. A slot
\* changes only by a merge into a stack that had space or by taking the
\* remainder as the lowest-index empty slot; a merge into a later slot or a
\* placement in an empty slot happens only when every earlier, respectively
\* every, stack that could take units is full. A leftover comes back only
\* when no slot is empty and no stack of the type has space left.
C39_TryInsertConserves ==
    (DOMAIN ins # {} /\ ins.n > 0) =>
       LET b == ins.before
           a == ins.after
           st == Unwrap(ins.stack)
           takes(i) == IsSome(b[i]) /\ Compatible(Unwrap(b[i]), st)
           full(i) == Room(Unwrap(a[i])) = 0
       IN /\ Len(a) = Len(b)
          /\ ItemTotal(a, st.item_name) + Qty(ins.leftover)
                = ItemTotal(b, st.item_name) + st.quantity
          /\ \A n \in ItemNames \ {st.item_name} :
                ItemTotal(a, n) = ItemTotal(b, n)
          /\ \A i \in 1..Len(b) :
                a[i] # b[i] =>
                   \/ /\ takes(i)
                      /\ Room(Unwrap(b[i])) > 0
                      /\ SameKind(Unwrap(a[i]), Unwrap(b[i]))
                      /\ Unwrap(a[i]).quantity > Unwrap(b[i]).quantity
                      /\ Unwrap(a[i]).quantity <= Unwrap(a[i]).max_stack
                      /\ \A j \in 1..(i - 1) : takes(j) => full(j)
                   \/ /\ IsNone(b[i])
                      /\ IsSome(a[i])
                      /\ SameKind(Unwrap(a[i]), st)
                      /\ \A j \in 1..(i - 1) : IsSome(b[j])
                      /\ \A j \in 1..Len(b) : takes(j) => full(j)
          /\ IsSome(ins.leftover) =>
                /\ SameKind(Unwrap(ins.leftover), st)
                /\ \A j \in 1..Len(a) : IsSome(a[j])
                /\ \A j \in 1..Len(b) : takes(j) => full(j)

\* a stack was merged into a stack behind an empty slot, and its remainder
\* was then placed in that empty slot
C39_Witness ==
    /\ DOMAIN ins # {}
    /\ ins.n > 0
    /\ IsNone(ins.leftover)
    /\ \E i \in 1..Len(ins.before), k \in 1..Len(ins.before) :
          /\ k < i
          /\ IsSome(ins.before[i])
          /\ ins.after[i] # ins.before[i]
          /\ IsNone(ins.before[k])
          /\ IsSome(ins.after[k])

\* C34: view ids are unique and increasing: whatever the number of threads
\* creating views at once, no two views, complete or under construction,
\* have the same id, and the id of a view is greater than the id of every
\* view whose creation was complete when its own began.
C34_ViewIdsUnique ==
    /\ \A i \in 1..Len(vids), j \in 1..Len(vids) :
          i # j => vids[i] # vids[j]
    /\ \A t \in Threads :
          IsSome(got[t]) =>
             /\ \A i \in 1..Len(vids) : vids[i] # Unwrap(got[t])
             /\ \A u \in Threads \ {t} : got[u] # got[t]
             /\ \A e \in earlier[t] : e < Unwrap(got[t])

\* two threads are constructing views at once, each with its id, after an
\* earlier view was completed
C34_Witness ==
    /\ Len(vids) >= 1
    /\ \E t \in Threads, u \in Threads :
          /\ t # u
          /\ IsSome(got[t])
          /\ IsSome(got[u])
          /\ earlier[t] # {}
          /\ earlier[u] = {}
          /\ Unwrap(got[u]) < Unwrap(got[t])

\* the recipe the furnace f is smelting: the one found for its input
SmeltedRecipe(f) == Unwrap(RecipeBook_find(SmeltingRecipes, f.input))

====
